---------------------------- MODULE Spec2Model ----------------------------
(***************************************************************************)
(* A model of the MADTOR discrete-time simulation engine (src/madtor).     *)
(*                                                                         *)
(* One Python process is modelled: the state of the module-global `random` *)
(* generator, the class attribute Agent._id_counter, and up to two         *)
(* MADTORSimulation instances living in that process.  The operations are  *)
(* the constructor, step(), run(max_ticks) and get_results().              *)
(*                                                                         *)
(* Arithmetic.  The engine computes with floats; the model computes with   *)
(* integers in fixed units:                                                *)
(*   money            cents                                                *)
(*   drug             1/48 gram  (one dose of 0.25 g = 12 units)           *)
(*   attractiveness   hundredths                                           *)
(*   eta              tenths (efficiency_vs_security)                      *)
(* The volume-dependent part of config.py (members per role, doses per     *)
(* day, daily costs, wages, capacities, the tick of the major disruption)  *)
(* is instantiated with a small configuration, so that one day sells a     *)
(* handful of doses and a run of two months sees arrests, a disruption and *)
(* a monthly update; these definitions are the bounds of the model.  The   *)
(* literals of the code (the 7/30/15 day periods, the shares, the          *)
(* calibration targets, the prices) keep their values.                     *)
(*                                                                         *)
(* Randomness.  `random` is a seeded deterministic generator shared by the *)
(* whole process.  It is modelled as a linear congruential generator whose *)
(* state is the variable randState; every draw of the code advances it     *)
(* once, in the order of the code.  Continuous draws are discretised.      *)
(***************************************************************************)
EXTENDS Integers, Sequences, FiniteSets, TLC

VARIABLES
    randState,   \* state of the module-global random generator
    idCounter,   \* Agent._id_counter (class attribute)
    sims,        \* instance name -> simulation object (or NoSim)
    solo,        \* instance name -> the same simulation run alone in a process
    soloRand,    \* instance name -> generator state of that lone process
    foreign,     \* instance name -> it has drawn from a stream others had used
    owner,       \* the instance whose call last had the shared generator
    last         \* the last call made: operation, instance, outcome, pre-state

vars == <<randState, idCounter, sims, solo, soloRand, foreign, owner, last>>

-----------------------------------------------------------------------------
(* Bounds of the model *)

MaxTick == 61          \* step() is called on an instance up to this tick
NumSeeds == 3          \* explicit seeds 0 .. NumSeeds-1
PairTicks == 2         \* horizon of the two-instance specification
SeedTicks == 2         \* horizon of the seed-file specification
MaxIds == 6            \* no construction from seed files once this many ids are taken
NetTicks == 1          \* horizon of the network specification
MaxAddLinks == 2       \* add_link is called directly at most this often
ShortRun == 12         \* the shorter of the two horizons handed to run()

(* config.py, scaled configuration (see the header) *)
INITIAL_TRAFFICKERS == 2
INITIAL_PACKAGERS == 2
INITIAL_RETAILERS == 3
UNIT_DOSE_2008 == 4
UNIT_DOSE_2010 == 10
UNIT_DOSE_MIN_2008 == 3
UNIT_DOSE_MIN_2010 == 9
UNIT_DOSE_MAX_2008 == 6
UNIT_DOSE_MAX_2010 == 16
COST_PER_DAY_2008 == 7100
COST_PER_DAY_2010 == 18550
DAILY_PROFIT_2008 == 3450
DAILY_PROFIT_2010 == 8900
PROFIT_OF_RETAILERS_MAX == 3456
ARRESTED_RETAILERS_WEEKLY_WAGE == 10000
ARRESTED_OTHER_WEEKLY_WAGE == 30000
ARRESTED_HOMICIDE_FAMILY_WAGES == 5000
DRUG_MAX_OF_PACKAGERS == 168
PACKAGE_DOSES_RETAILERS == 1
MAJOR_DISRUPTION_TICK == 10

(* config.py and code literals, unscaled *)
TICKS_PER_YEAR == 365
TRAFFICKERS_2008 == 5
TRAFFICKERS_2010 == 16
PACKAGERS_2008 == 5
PACKAGERS_2010 == 13
RETAILERS_2008 == 34
RETAILERS_2010 == 37
GRAM_PER_DOSE == 12
GRAM == 4 * GRAM_PER_DOSE
WHOLESALE_PRICE_2008 == 4020
WHOLESALE_PRICE_2009 == 4068
WHOLESALE_PRICE_2010 == 4390
RETAIL_PRICE_2008 == 7026
RETAIL_PRICE_2009 == 7047
RETAIL_PRICE_2010 == 7536
PRICE_PER_DOSE == 3200
TRAFFICKERS_SHARE_OF_PROFITS == 70
RETAILERS_SHARE_OF_PROFITS == 18
START_UP_MONTHS == 2
STOP_ACQUIRE_DAYS_DEFAULT == 60
WEEK == 7
MONTH == 30
MINOR_ARREST_DAY == 15

WEEKLY_PROFIT_2008 == DAILY_PROFIT_2008 * 7
WEEKLY_PROFIT_2010 == DAILY_PROFIT_2010 * 7
DRUG_PACKAGE_RETAILERS == PACKAGE_DOSES_RETAILERS * GRAM_PER_DOSE
START_UP_MONEY ==
    (COST_PER_DAY_2010 * PACKAGERS_2008 * START_UP_MONTHS * 30) \div PACKAGERS_2010

Instances == {"A", "B"}
NoSim == [exists |-> FALSE]
None == -1
SeedValues == 0 .. (NumSeeds - 1)
EtaValues == {0, 5, 6, 10}
ArrestScenarios == {0, 50, 100}
DISRUPTION_MODES == {"scenario1", "scenario2", "scenario3"}

-----------------------------------------------------------------------------
(* Small helpers *)

Min(a, b) == IF a <= b THEN a ELSE b
Max(a, b) == IF a >= b THEN a ELSE b

RECURSIVE SumSeq(_)
SumSeq(s) == IF s = <<>> THEN 0 ELSE Head(s) + SumSeq(Tail(s))

(* int(p / q) of Python for q > 0: truncation toward zero *)
TruncDiv(p, q) == IF p >= 0 THEN p \div q ELSE -((-p) \div q)

(* a sequence given as a function, as the tuple of its values *)
Tuple(f) == SubSeq(f, 1, Len(f))

-----------------------------------------------------------------------------
(* The module-global generator `random` *)


(* one draw advances the generator *)
RandNext(r) == (r * 75 + 74) % 65537

(* random.seed(s) *)
RandSeed(s) == (s * 7919 + 13) % 65537

(* the value delivered by the draw that left the generator in state r,
   as an integer in 0 .. n-1 *)
RandVal(r, n) == (r \div 16) % n

(* random.normalvariate(0, 1), in whole standard deviations -3 .. 3 *)
NormalVal(r) == RandVal(r, 7) - 3


-----------------------------------------------------------------------------
(* agents.py: Agent, Trafficker, Packager, Retailer *)

(* Agent._initialize_attractiveness: (z + 3) / 6 clipped to [0.1, 1.0] *)
initialize_attractiveness(r) ==
    Max(10, Min(100, ((NormalVal(r) + 3) * 100) \div 6))

(* Agent.__init__ (with the subclass constructors): takes the next id of the
   class counter and one draw for the attractiveness *)
NewAgent(type, r, c) ==
    LET r1 == RandNext(r) IN
    [agent |-> [agent_id |-> c,
                agent_type |-> type,
                drug |-> 0,
                attractiveness |-> initialize_attractiveness(r1),
                availability |-> IF type = "trafficker" THEN None ELSE 1,
                connections |-> {},
                link_data |-> << >>,
                profit |-> 0,
                is_arrested |-> FALSE,
                arrest_date |-> None],
     r |-> r1,
     c |-> c + 1]

(* a connection that starts again at familiarity 1 every time *)
ConnectAnew(agent, other_agent_id) ==
    [agent EXCEPT
        !.connections = @ \cup {other_agent_id},
        !.link_data = [x \in DOMAIN @ \cup {other_agent_id} |->
                          IF x = other_agent_id THEN 1 ELSE @[x]]]

(* a connection whose familiarity stays at its first value *)
ConnectOnce(agent, other_agent_id) ==
    [agent EXCEPT
        !.connections = @ \cup {other_agent_id},
        !.link_data = @ @@ (other_agent_id :> 1)]

(* Agent.add_connection *)
add_connection(agent, other_agent_id) ==
    LET ld == agent.link_data IN
    [agent EXCEPT
        !.connections = @ \cup {other_agent_id},
        !.link_data = IF other_agent_id \in DOMAIN ld
                      THEN [ld EXCEPT ![other_agent_id] = @ + 1]
                      ELSE ld @@ (other_agent_id :> 1)]

(* Agent.get_connection_familiarity *)
get_connection_familiarity(agent, other_agent_id) ==
    IF other_agent_id \in DOMAIN agent.link_data
    THEN agent.link_data[other_agent_id] ELSE 0

(* Agent.get_degree *)
get_degree(agent) == Cardinality(agent.connections)

(* Packager.update_availability, Retailer.update_availability *)
update_availability(agent, drug_amount, drug_max) ==
    [agent EXCEPT !.availability = IF drug_amount >= drug_max THEN 0 ELSE 1]

(* Packager.update_attractiveness, Retailer.update_attractiveness:
   variation uniform in [-a/10, a/10], here one of -a/10, 0, a/10 *)
update_attractiveness(agent, r) ==
    LET variation == (RandVal(r, 3) - 1) * (agent.attractiveness \div 10) IN
    [agent EXCEPT !.attractiveness = Max(10, Min(100, @ + variation))]

(* 0.0001 ** x for x in hundredths, in hundredths: 10 ^ (2 - x/25) *)
SkillStep(x) ==
    IF x < 13 THEN 100 - 5 * x
    ELSE IF x < 25 THEN 33 - 2 * (x - 13)
    ELSE IF x < 50 THEN 10 - (9 * (x - 25)) \div 25
    ELSE IF x < 75 THEN 1
    ELSE 0

(* Trafficker.attempt_acquisition *)
attempt_acquisition(agent, success) ==
    IF success
    THEN IF agent.attractiveness < 20
         THEN [agent EXCEPT !.attractiveness = 20]
         ELSE [agent EXCEPT !.attractiveness =
                   Min(100, @ + SkillStep(agent.attractiveness))]
    ELSE IF agent.attractiveness > 80
         THEN [agent EXCEPT !.attractiveness = 80]
         ELSE [agent EXCEPT !.attractiveness =
                   Max(0, @ - SkillStep(100 - agent.attractiveness))]

-----------------------------------------------------------------------------
(* agents.py: Network.  Network.agents is a dict in insertion order: a
   sequence of agents; Network.links is the list of Link objects. *)

Indices(agents) == 1 .. Len(agents)

AgentIds(agents) == {agents[i].agent_id : i \in Indices(agents)}

IndexOf(agents, id) == CHOOSE i \in Indices(agents) : agents[i].agent_id = id

(* the indices in 1..n that satisfy keep, in increasing order *)
RECURSIVE FilterIdx(_, _, _)
FilterIdx(keep, i, n) ==
    IF i > n THEN <<>>
    ELSE IF i \in keep THEN <<i>> \o FilterIdx(keep, i + 1, n)
    ELSE FilterIdx(keep, i + 1, n)

(* Network.get_active_agents *)
get_active_agents(agents) ==
    FilterIdx({i \in Indices(agents) : ~agents[i].is_arrested}, 1, Len(agents))

(* a query by type that forgets the is_arrested flag *)
EveryAgentByType(agents, agent_type) ==
    FilterIdx({i \in Indices(agents) : agents[i].agent_type = agent_type},
              1, Len(agents))

(* Network.get_active_agents_by_type *)
get_active_agents_by_type(agents, agent_type) ==
    FilterIdx({i \in Indices(agents) :
                  ~agents[i].is_arrested /\ agents[i].agent_type = agent_type},
              1, Len(agents))

(* an add_link that records the partner at the first member only *)
LinkOneWay(net, agent_id_1, agent_id_2, link_type) ==
    IF agent_id_1 \in AgentIds(net.agents) /\ agent_id_2 \in AgentIds(net.agents)
    THEN [agents |-> [net.agents EXCEPT
                         ![IndexOf(net.agents, agent_id_1)] =
                             add_connection(@, agent_id_2)],
          links |-> Append(net.links, <<agent_id_1, agent_id_2, link_type>>)]
    ELSE net

(* an add_link that records the link without looking the ids up *)
LinkUnchecked(net, agent_id_1, agent_id_2, link_type) ==
    [agents |-> net.agents,
     links |-> Append(net.links, <<agent_id_1, agent_id_2, link_type>>)]

(* Network.add_link: net is [agents, links] *)
add_link(net, agent_id_1, agent_id_2, link_type) ==
    IF agent_id_1 \in AgentIds(net.agents) /\ agent_id_2 \in AgentIds(net.agents)
    THEN LET i1 == IndexOf(net.agents, agent_id_1)
             i2 == IndexOf(net.agents, agent_id_2)
             a1 == [net.agents EXCEPT ![i1] = add_connection(@, agent_id_2)]
             a2 == [a1 EXCEPT ![i2] = add_connection(@, agent_id_1)]
         IN [agents |-> a2,
             links |-> Append(net.links, <<agent_id_1, agent_id_2, link_type>>)]
    ELSE net


-----------------------------------------------------------------------------
(* simulation.py: construction *)

(* config.PROFIT_RANGES[efficiency_vs_security], scaled *)
PROFIT_RANGES(eta) ==
    CASE eta = 0  -> [traffickers_min |-> 241, traffickers_max |-> 276,
                      packagers_min |-> 121, packagers_max |-> 138]
      [] eta = 2  -> [traffickers_min |-> 276, traffickers_max |-> 321,
                      packagers_min |-> 138, packagers_max |-> 161]
      [] eta = 4  -> [traffickers_min |-> 310, traffickers_max |-> 368,
                      packagers_min |-> 155, packagers_max |-> 183]
      [] eta = 5  -> [traffickers_min |-> 328, traffickers_max |-> 390,
                      packagers_min |-> 163, packagers_max |-> 195]
      [] eta = 6  -> [traffickers_min |-> 345, traffickers_max |-> 414,
                      packagers_min |-> 172, packagers_max |-> 207]
      [] eta = 8  -> [traffickers_min |-> 138, traffickers_max |-> 483,
                      packagers_min |-> 34, packagers_max |-> 241]
      [] eta = 10 -> [traffickers_min |-> 138, traffickers_max |-> 552,
                      packagers_min |-> 34, packagers_max |-> 276]

(* MADTORSimulation._initialize_global_state: the keys the engine reads *)
initialize_global_state(arrest_scenario, disruption_mode, eta) ==
    [tick |-> 0,
     n_active_traffickers |-> INITIAL_TRAFFICKERS,
     n_active_packagers |-> INITIAL_PACKAGERS,
     n_active_retailers |-> INITIAL_RETAILERS,
     drug_package_of_traffickers |-> 0,
     drug_package_of_packagers |-> 0,
     drug_package_of_retailers |-> DRUG_PACKAGE_RETAILERS,
     gram_per_dose |-> GRAM_PER_DOSE,
     unit_dose |-> UNIT_DOSE_2008,
     unit_dose_min |-> UNIT_DOSE_MIN_2008,
     unit_dose_max |-> UNIT_DOSE_MAX_2008,
     unit_dose_now |-> UNIT_DOSE_2008,
     stock_drug |-> 0,
     stock_drug_traffickers |-> 0,
     stock_drug_packagers |-> 0,
     stock_drug_retailers |-> 0,
     target_stock_drug |-> 0,
     wholesale_price |-> WHOLESALE_PRICE_2008,
     wholesale_price_now |-> WHOLESALE_PRICE_2008,
     retail_price |-> RETAIL_PRICE_2008,
     price_per_dose |-> PRICE_PER_DOSE,
     cash_box |-> 0,
     revenues |-> 0,
     expenses |-> 0,
     profit_of_traffickers |-> 0,
     profit_of_packagers |-> 0,
     profit_of_retailers |-> 0,
     weekly_profit |-> WEEKLY_PROFIT_2008,
     weekly_profit_now |-> 0,
     cost_per_day |-> COST_PER_DAY_2008,
     profit_of_traffickers_min |-> PROFIT_RANGES(eta).traffickers_min,
     profit_of_traffickers_max |-> PROFIT_RANGES(eta).traffickers_max,
     profit_of_packagers_min |-> PROFIT_RANGES(eta).packagers_min,
     profit_of_packagers_max |-> PROFIT_RANGES(eta).packagers_max,
     profit_of_retailers_max |-> PROFIT_OF_RETAILERS_MAX,
     traffickers_share_of_profits |-> TRAFFICKERS_SHARE_OF_PROFITS,
     retailers_share_of_profits |-> RETAILERS_SHARE_OF_PROFITS,
     n_acquisition |-> 0,
     n_exhaust_traffickers |-> 0,
     n_exhaust_packagers |-> 0,
     n_exhaust_retailers |-> 0,
     n_exhaust_retailers_90 |-> 0,
     arrested_retailers_family |-> 0,
     dead_members_family |-> 0,
     fm_traffickers_wage |-> 0,
     fm_packagers_wage |-> 0,
     fm_retailers_wage |-> 0,
     arrested_homicide_family_wages |-> ARRESTED_HOMICIDE_FAMILY_WAGES,
     n_weekly_profit_min |-> 0,
     n_weekly_profit_max |-> 0,
     n_weekly_profit_neg |-> 0,
     arrested_mode |-> "arrested%",
     arrested_pct |-> arrest_scenario,
     arrested_num |-> 0,
     target_of_disruption |-> "turtles",
     disruption_mode |-> disruption_mode,
     efficiency_vs_security |-> eta,
     ticks_disruption |-> None,
     stop_acquire_days |-> STOP_ACQUIRE_DAYS_DEFAULT,
     n_arrested_traffickers_minor |-> 0,
     n_arrested_packagers_minor |-> 0,
     n_arrested_retailers_minor |-> 0,
     n_arrested_traffickers_major |-> 0,
     n_arrested_packagers_major |-> 0,
     n_arrested_retailers_major |-> 0]

(* cost_per_day - cost_per_day * supply_costs,
   with supply_costs = wholesale_price / retail_price *)
DailyMargin(gs) ==
    (gs.cost_per_day * (gs.retail_price - gs.wholesale_price)) \div gs.retail_price

(* unit_dose_min + (unit_dose_max - unit_dose_min) * factor, times
   gram_per_dose, for a factor of num/den tenths *)
DoseVolume(gs, num, den) ==
    ((gs.unit_dose_min * 10 * den
        + (gs.unit_dose_max - gs.unit_dose_min) * num) * gs.gram_per_dose)
    \div (10 * den)

(* MADTORSimulation._calculate_initial_parameters *)
calculate_initial_parameters(gs) ==
    LET eta == gs.efficiency_vs_security
        \* efficiency_factor = efficiency_vs_security / 3
        volume == DoseVolume(gs, eta, 3)
        n_traffickers == Max(1, gs.n_active_traffickers)
        n_packagers == Max(1, gs.n_active_packagers)
        n_retailers == Max(1, gs.n_active_retailers)
        profit_t == (DailyMargin(gs) * TRAFFICKERS_SHARE_OF_PROFITS)
                        \div (100 * n_traffickers)
        profit_p == (DailyMargin(gs) * (100 - TRAFFICKERS_SHARE_OF_PROFITS))
                        \div (100 * n_packagers)
        profit_r == (gs.unit_dose * PRICE_PER_DOSE * RETAILERS_SHARE_OF_PROFITS)
                        \div (100 * n_retailers)
    IN [gs EXCEPT
          !.drug_package_of_traffickers = (volume * 30) \div n_traffickers,
          !.drug_package_of_packagers = volume \div n_packagers,
          !.profit_of_traffickers =
              Max(gs.profit_of_traffickers_min,
                  Min(gs.profit_of_traffickers_max, profit_t)),
          !.profit_of_packagers =
              Max(gs.profit_of_packagers_min,
                  Min(gs.profit_of_packagers_max, profit_p)),
          !.profit_of_retailers = Min(gs.profit_of_retailers_max, profit_r),
          \* start_up_months = 2
          !.target_stock_drug = gs.unit_dose * gs.gram_per_dose * 2 * 30,
          !.cash_box = START_UP_MONEY]

(* every agent whose index is in idx gets the inventory amount *)
SetDrug(agents, idx, amount) ==
    Tuple([i \in Indices(agents) |->
             IF \E k \in 1 .. Len(idx) : idx[k] = i
             THEN [agents[i] EXCEPT !.drug = amount] ELSE agents[i]])

(* MADTORSimulation._initialize_drug_stocks: sim is [agents, gs, ...] *)
initialize_drug_stocks(sim) ==
    LET target_stock == sim.gs.target_stock_drug
        packagers == get_active_agents_by_type(sim.agents, "packager")
        retailers == get_active_agents_by_type(sim.agents, "retailer")
        packager_stock ==
            target_stock - 2 * sim.gs.unit_dose * sim.gs.gram_per_dose
        s1 == IF packagers # <<>>
              THEN [sim EXCEPT
                      !.agents = SetDrug(@, packagers,
                                         packager_stock \div Len(packagers)),
                      !.gs.stock_drug_packagers = packager_stock]
              ELSE sim
        retailer_stock == target_stock - s1.gs.stock_drug_packagers
        s2 == IF retailers # <<>>
              THEN [s1 EXCEPT
                      !.agents = SetDrug(@, retailers,
                                         retailer_stock \div Len(retailers)),
                      !.gs.stock_drug_retailers = retailer_stock]
              ELSE s1
    IN [s2 EXCEPT !.gs.stock_drug = target_stock]

(* the loops of _create_initial_links: every agent of lower (from position k)
   is linked to a random.choice of upper; upper_first says which id goes
   first in add_link *)
RECURSIVE LinkEach(_, _, _, _, _, _)
LinkEach(net, r, lower, k, upper, link_type) ==
    IF k > Len(lower) \/ upper = <<>> THEN [net |-> net, r |-> r]
    ELSE LET r1 == RandNext(r)
             partner == upper[RandVal(r1, Len(upper)) + 1]
         IN LinkEach(add_link(net, net.agents[partner].agent_id,
                              net.agents[lower[k]].agent_id, link_type),
                     r1, lower, k + 1, upper, link_type)

(* a setup that wires no member *)
LeaveUnlinked(net, r) == [net |-> net, r |-> r]

(* MADTORSimulation._create_initial_links *)
create_initial_links(net, r) ==
    LET traffickers == get_active_agents_by_type(net.agents, "trafficker")
        packagers == get_active_agents_by_type(net.agents, "packager")
        retailers == get_active_agents_by_type(net.agents, "retailer")
        tp == LinkEach(net, r, packagers, 1, traffickers, "trafficker-packager")
    IN LinkEach(tp.net, tp.r, retailers, 1, packagers, "packager-retailer")

(* the loops of _setup_with_random_initialization that create the agents *)
RECURSIVE CreateAgents(_, _, _, _, _)
CreateAgents(type, n, agents, r, c) ==
    IF n = 0 THEN [agents |-> agents, r |-> r, c |-> c]
    ELSE LET a == NewAgent(type, r, c)
         IN CreateAgents(type, n - 1, Append(agents, a.agent), a.r, a.c)

(* DataCollector.__init__: the columns of the tick-indexed record *)
EmptyData ==
    [tick |-> <<>>, n_traffickers |-> <<>>, n_packagers |-> <<>>,
     n_retailers |-> <<>>, n_total_members |-> <<>>, cash_box |-> <<>>,
     revenues |-> <<>>, expenses |-> <<>>, stock_drug |-> <<>>,
     n_acquisition |-> <<>>, unit_dose_now |-> <<>>, n_components |-> <<>>]

(* what one call of step() did: the transfers made, the stocks after each
   stage, the members that sold and the members arrested, each with the
   is_arrested flag it had when it was chosen, the scope of a major
   disruption, and the role whose recruitment conditions were met *)
EmptyLog ==
    [transfers |-> <<>>, stages |-> <<>>, sellers |-> {}, doses |-> <<>>,
     arrests |-> {}, major |-> FALSE, scope |-> {}, recruit |-> "none"]

(* random.seed(self.seed) of __init__: the generator restarts from the seed,
   whatever state r it was in *)
KeepStream(the_seed, r) == r
Reseed(the_seed, r) == RandSeed(the_seed)

(* MADTORSimulation.__init__ with _setup and _setup_with_random_initialization
   (no seed files are present).  seed = None draws the seed from the
   generator; the result carries the new generator state and id counter. *)
MADTORSimulation(arrest_scenario, disruption_mode, eta, seed, r, c) ==
    LET r0 == RandNext(r)
        the_seed == IF seed # None THEN seed ELSE RandVal(r0, NumSeeds)
        rs == Reseed(the_seed, r0)
        t == CreateAgents("trafficker", INITIAL_TRAFFICKERS, <<>>, rs, c)
        p == CreateAgents("packager", INITIAL_PACKAGERS, t.agents, t.r, t.c)
        q == CreateAgents("retailer", INITIAL_RETAILERS, p.agents, p.r, p.c)
        sim0 == [exists |-> TRUE,
                 seed |-> the_seed,
                 arrest_scenario |-> arrest_scenario,
                 disruption_mode |-> disruption_mode,
                 efficiency_vs_security |-> eta,
                 tick |-> 0,
                 running |-> TRUE,
                 agents |-> q.agents,
                 links |-> <<>>,
                 gs |-> calculate_initial_parameters(
                            initialize_global_state(arrest_scenario,
                                                    disruption_mode, eta)),
                 data |-> EmptyData,
                 log |-> EmptyLog]
        sim1 == initialize_drug_stocks(sim0)
        linked == create_initial_links(
                      [agents |-> sim1.agents, links |-> sim1.links], q.r)
    IN [s |-> [sim1 EXCEPT !.agents = linked.net.agents,
                           !.links = linked.net.links],
        r |-> linked.r,
        c |-> q.c]

-----------------------------------------------------------------------------
(* simulation.py, utils.py: construction from the seed files.  nodes_data is
   the roster as load_nodes_file returns it, in file order and with distinct
   node ids: a sequence of [node_id, role_category2]; links_data the edges as
   load_links_file returns them: a sequence of [source, target, familiarity] *)

(* utils.infer_agent_type on the lower-cased role category *)
infer_agent_type(role_category2) ==
    IF role_category2 = "trafficker" THEN "trafficker"
    ELSE IF role_category2 \in {"packager", "refining"} THEN "packager"
    ELSE "retailer"

(* the agent loop of _setup_from_real_data from position k on; acc is
   [agents, agent_map, r, c], a the agent built for nodes_data[k] *)
RECURSIVE SeedAgents(_, _, _)
SeedAgent(nodes_data, k, acc, a) ==
    SeedAgents(nodes_data, k + 1,
               [agents |-> Append(acc.agents, a.agent),
                agent_map |-> acc.agent_map
                                 @@ (nodes_data[k].node_id :> a.agent.agent_id),
                r |-> a.r, c |-> a.c])

SeedAgents(nodes_data, k, acc) ==
    IF k > Len(nodes_data) THEN acc
    ELSE SeedAgent(nodes_data, k, acc,
                   NewAgent(infer_agent_type(nodes_data[k].role_category2),
                            acc.r, acc.c))

(* the link loop of _setup_from_real_data: an edge with an endpoint missing
   from agent_map is skipped; the first edge with both endpoints calls
   self.network.add_link(id, id, tag, familiarity), one positional argument
   more than Network.add_link takes, which raises TypeError *)
SeedLinksRaise(agent_map, links_data) ==
    \E k \in 1 .. Len(links_data) :
        /\ links_data[k].source \in DOMAIN agent_map
        /\ links_data[k].target \in DOMAIN agent_map

(* the end of _setup_from_real_data: the agent counts, the initial parameters
   and the drug stocks *)
SeedFinish(sim0) ==
    initialize_drug_stocks(
        [sim0 EXCEPT !.gs = calculate_initial_parameters(
            [@ EXCEPT
               !.n_active_traffickers =
                   Len(get_active_agents_by_type(sim0.agents, "trafficker")),
               !.n_active_packagers =
                   Len(get_active_agents_by_type(sim0.agents, "packager")),
               !.n_active_retailers =
                   Len(get_active_agents_by_type(sim0.agents, "retailer"))])])

(* MADTORSimulation._setup_from_real_data; made is what the agent loop left.
   An exception leaves __init__, and no instance comes to exist. *)
setup_from_real_data(arrest_scenario, disruption_mode, eta, the_seed, links_data, made) ==
    IF SeedLinksRaise(made.agent_map, links_data)
    THEN [s |-> NoSim, r |-> made.r, c |-> made.c, raised |-> TRUE,
          seed |-> the_seed]
    ELSE [s |-> SeedFinish([exists |-> TRUE,
                            seed |-> the_seed,
                            arrest_scenario |-> arrest_scenario,
                            disruption_mode |-> disruption_mode,
                            efficiency_vs_security |-> eta,
                            tick |-> 0,
                            running |-> TRUE,
                            agents |-> made.agents,
                            links |-> <<>>,
                            gs |-> initialize_global_state(arrest_scenario,
                                                           disruption_mode, eta),
                            data |-> EmptyData,
                            log |-> EmptyLog]),
          r |-> made.r, c |-> made.c, raised |-> FALSE, seed |-> the_seed]

(* __init__ once the seed is known, both seed files being present *)
SeededWith(arrest_scenario, disruption_mode, eta, the_seed, nodes_data, links_data, r0, c) ==
    setup_from_real_data(arrest_scenario, disruption_mode, eta, the_seed,
                         links_data,
                         SeedAgents(nodes_data, 1,
                                    [agents |-> <<>>, agent_map |-> << >>,
                                     r |-> Reseed(the_seed, r0), c |-> c]))

(* MADTORSimulation.__init__ with _setup when both seed files are present *)
MADTORSimulationSeeded(arrest_scenario, disruption_mode, eta, seed, nodes_data, links_data, r, c) ==
    SeededWith(arrest_scenario, disruption_mode, eta,
               IF seed # None THEN seed ELSE RandVal(RandNext(r), NumSeeds),
               nodes_data, links_data, RandNext(r), c)


-----------------------------------------------------------------------------
(* activities.py: acquisition.  The stages take and return a context
   [s |-> simulation, r |-> generator state, c |-> id counter,
    raised |-> an exception is propagating]. *)

(* config.SCENARIO3_DISRUPTION_TICKS, on the scale that takes the tick of
   the major disruption, 2 * TICKS_PER_YEAR, to MAJOR_DISRUPTION_TICK *)
SCENARIO3_DISRUPTION_TICKS ==
    {(t * MAJOR_DISRUPTION_TICK) \div (2 * TICKS_PER_YEAR) :
        t \in {450, 630, 810, 990, 1170, 1350, 1530}}

(* the scenario3 stop-acquire schedule (activities.py, simulation.py) *)
Scenario3Schedule(ticks_disruption) ==
    CASE ticks_disruption = 450 -> 90
      [] ticks_disruption = 630 -> 90
      [] ticks_disruption = 810 -> 60
      [] ticks_disruption = 990 -> 60
      [] ticks_disruption = 1170 -> 30
      [] ticks_disruption = 1350 -> 30
      [] ticks_disruption = 1530 -> 0
      [] OTHER -> None

Clip(x, lo, hi) == Max(lo, Min(hi, x))

(* random.uniform(0, 1.1) in tenths: 0 .. 10 *)
Uniform11(r) == RandVal(r, 11)

(* the gate with the efficiency-versus-security draw made on every
   acquisition tick, whether or not a disruption window is open *)
GateEverywhere(gs, tick, stop_acquire_days, r) ==
    [r |-> RandNext(r),
     veto |-> Uniform11(RandNext(r)) <= 10 - gs.efficiency_vs_security]

(* a gate that a disruption with a zero arrest target leaves shut: the
   efficiency-versus-security draw is made only with arrests on record *)
GateNeedsArrests(gs, tick, stop_acquire_days, r) ==
    IF gs.arrested_pct = 0 THEN [r |-> r, veto |-> FALSE]
    ELSE [r |-> RandNext(r),
          veto |-> Uniform11(RandNext(r)) <= 10 - gs.efficiency_vs_security]

(* the disruption-window gate at the head of acquire_drug: the generator
   state after its draws, and whether acquisition is vetoed *)
AcquisitionGate(gs, tick, stop_acquire_days, r) ==
    LET td == gs.ticks_disruption
        eta == gs.efficiency_vs_security
        in_window == td # None /\ tick > td /\ tick <= td + stop_acquire_days
        first_half == td # None /\ tick > td
                        /\ 2 * tick <= 2 * td + stop_acquire_days
        gate1 == IF gs.arrested_mode = "arrested%"
                 THEN gs.arrested_pct # 0 /\ first_half
                 ELSE gs.arrested_num # 0 /\ first_half
        r1 == RandNext(r)
        \* random.randint(0, 99) against arrested%
        veto1 == gate1 /\ RandVal(r1, 100) <= gs.arrested_pct
        ra == IF gate1 THEN r1 ELSE r
        r2 == RandNext(ra)
        veto2 == Uniform11(r2) <= 10 - eta
    IN IF ~in_window THEN [r |-> r, veto |-> FALSE]
       ELSE IF veto1 THEN [r |-> r1, veto |-> TRUE]
       ELSE [r |-> r2, veto |-> veto2]

(* the per-trafficker loop of acquire_drug.  cash_box is the value read
   before the loop; acc is [agents, gs, r, n] *)
RECURSIVE AcquireLoop(_, _, _, _, _, _, _)
AcquireLoop(acc, traffickers, k, acquisition_index, wholesale_price_now, cash_box, package) ==
    IF k > Len(traffickers) THEN acc
    ELSE IF acquisition_index = 999
    THEN AcquireLoop(acc, traffickers, k + 1, acquisition_index,
                     wholesale_price_now, cash_box, package)
    ELSE
      LET i == traffickers[k]
          r1 == RandNext(acc.r)
          r2 == RandNext(r1)
          r3 == RandNext(r2)
          \* random.random() * random.random() * random.random(), thousandths
          rd == RandVal(r1, 10) * RandVal(r2, 10) * RandVal(r3, 10)
          trafficker == acc.agents[i]
          success == trafficker.attractiveness \div 10 + rd > acquisition_index
          acquisition_cost == (wholesale_price_now * package) \div GRAM
          full == 2 * acquisition_cost <= cash_box
          amount == IF full THEN package
                    ELSE (cash_box * GRAM) \div (2 * wholesale_price_now)
          spent == IF full THEN acquisition_cost ELSE cash_box \div 2
          bought == [attempt_acquisition(trafficker, TRUE)
                       EXCEPT !.drug = @ + amount]
          \* a failed trial lowers the attractiveness inline and then again
          \* in attempt_acquisition(success=False)
          lowered == IF trafficker.attractiveness > 80
                     THEN [trafficker EXCEPT !.attractiveness = 80]
                     ELSE [trafficker EXCEPT !.attractiveness =
                              Max(0, @ - SkillStep(100 - trafficker.attractiveness))]
          failed == attempt_acquisition(lowered, FALSE)
          next ==
            IF success
            THEN [agents |-> [acc.agents EXCEPT ![i] = bought],
                  gs |-> [acc.gs EXCEPT
                            !.stock_drug_traffickers = @ + amount,
                            !.stock_drug = @ + amount,
                            !.cash_box = IF full THEN cash_box - acquisition_cost
                                         ELSE cash_box \div 2,
                            !.expenses = @ + spent],
                  r |-> r3,
                  n |-> acc.n + 1]
            ELSE [agents |-> [acc.agents EXCEPT ![i] = failed],
                  gs |-> acc.gs, r |-> r3, n |-> acc.n]
      IN AcquireLoop(next, traffickers, k + 1, acquisition_index,
                     wholesale_price_now, cash_box, package)

(* DrugTraffickingActivities.acquire_drug *)
acquire_drug(ctx, tick) ==
    IF tick % MONTH # 0 THEN ctx
    ELSE
      LET gs0 == ctx.s.gs
          sched == Scenario3Schedule(gs0.ticks_disruption)
          reschedule == gs0.disruption_mode = "scenario3"
                          /\ gs0.ticks_disruption # None /\ sched # None
          stop_acquire_days == IF reschedule THEN sched ELSE gs0.stop_acquire_days
          gs1 == [gs0 EXCEPT !.stop_acquire_days = stop_acquire_days]
          gate == AcquisitionGate(gs1, tick, stop_acquire_days, ctx.r)
          target_stock == gs1.target_stock_drug
          current_stock == gs1.stock_drug
          \* indices in thousandths
          stock_drug_index ==
              IF target_stock > 0
              THEN Min(1000, (current_stock * 1000) \div target_stock) ELSE 0
          r1 == RandNext(gate.r)
          market_condition_index ==
              (Clip(((NormalVal(r1) + 3) * 1000) \div 6, 0, 1000)
                  * (10 - gs1.efficiency_vs_security)) \div 10
          r2 == RandNext(r1)
          \* wholesale_price + normalvariate(0, 8.73 * 0.5)
          wholesale_price_now == gs1.wholesale_price + NormalVal(r2) * 437
          wholesale_price_index ==
              Clip(((wholesale_price_now - (gs1.wholesale_price - 1000)) * 1000)
                      \div 2000, 0, 1000)
          composite == (((stock_drug_index * market_condition_index) \div 1000)
                            * wholesale_price_index) \div 1000
          acquisition_index ==
              IF current_stock >= target_stock * 2 THEN 999 ELSE composite
          traffickers == get_active_agents_by_type(ctx.s.agents, "trafficker")
          done == AcquireLoop(
                      [agents |-> ctx.s.agents,
                       gs |-> [gs1 EXCEPT !.wholesale_price_now = wholesale_price_now],
                       r |-> r2, n |-> gs1.n_acquisition],
                      traffickers, 1, acquisition_index, wholesale_price_now,
                      gs1.cash_box, gs1.drug_package_of_traffickers)
          gs2 == [done.gs EXCEPT
                    !.n_acquisition = done.n,
                    !.stock_drug_traffickers = IF @ < 0 THEN 0 ELSE @]
      IN IF gate.veto
         THEN [ctx EXCEPT !.s.gs = gs1, !.r = gate.r]
         ELSE [ctx EXCEPT !.s.agents = done.agents, !.s.gs = gs2, !.r = done.r]


-----------------------------------------------------------------------------
(* activities.py: packaging and the tiered transfers *)

(* total_agents and the smallest and largest degree among the active
   members, read once at the head of a transfer function *)
VisibilityBounds(agents) ==
    LET active == get_active_agents(agents)
        degs == {get_degree(agents[active[k]]) : k \in 1 .. Len(active)}
    IN [total_agents |-> Len(active),
        min_deg |-> IF degs = {} THEN 0
                    ELSE CHOOSE x \in degs : \A y \in degs : x <= y,
        max_deg |-> IF degs = {} THEN 0
                    ELSE CHOOSE x \in degs : \A y \in degs : x >= y]

(* visibility_norm of a member of degree d as [num, den]: vis_raw is
   d / (total_agents - 1), normalised between min_vis and max_vis *)
VisibilityNorm(vis, d) ==
    IF vis.total_agents <= 1 THEN [num |-> 1, den |-> 1]
    ELSE IF vis.max_deg = vis.min_deg
    THEN [num |-> d, den |-> vis.total_agents - 1]
    ELSE [num |-> d - vis.min_deg, den |-> vis.max_deg - vis.min_deg]

(* max_fam of the familiarity bounds (min_fam stays 0) over the available
   candidates *)
MaxFam(agents, src, candidates) ==
    LET fams == {get_connection_familiarity(agents[src],
                                            agents[candidates[k]].agent_id) :
                   k \in {j \in 1 .. Len(candidates) :
                            agents[candidates[j]].availability > 0}}
                \cup {1}
    IN CHOOSE x \in fams : \A y \in fams : x >= y

(* total_trust_appeal of one candidate, over the common denominator
   2 * 10 * max_fam * den * 100 *)
TrustAppeal(agents, src, cand, max_fam, eta, vis) ==
    LET fam == get_connection_familiarity(agents[src], agents[cand].agent_id)
        v == VisibilityNorm(vis, get_degree(agents[cand]))
        a == agents[cand].attractiveness
    IN (fam * v.den * 100 + v.num * max_fam * 100) * (10 - eta)
       + (a * max_fam * v.den + v.num * max_fam * 100) * eta

(* the selection loop: the first available candidate of largest
   total_trust_appeal, 0 if none is available; sel is [best, score] *)
RECURSIVE BestPartnerFrom(_, _, _, _, _, _, _, _)
BestPartnerFrom(agents, src, candidates, k, max_fam, eta, vis, sel) ==
    IF k > Len(candidates) THEN sel.best
    ELSE LET cand == candidates[k]
             score == TrustAppeal(agents, src, cand, max_fam, eta, vis)
             sel1 == IF agents[cand].availability > 0 /\ score > sel.score
                     THEN [best |-> cand, score |-> score] ELSE sel
         IN BestPartnerFrom(agents, src, candidates, k + 1, max_fam, eta, vis,
                            sel1)

BestPartner(agents, src, candidates, eta, vis) ==
    BestPartnerFrom(agents, src, candidates, 1,
                    MaxFam(agents, src, candidates), eta, vis,
                    [best |-> 0, score |-> -1])

(* a hand-over that ignores what the source holds *)
WholePackage(drug_package, drug) == drug_package

(* transfer_amount = min(drug_package, trafficker.drug), resp. packager.drug *)
transfer_amount(drug_package, drug) == Min(drug_package, drug)

(* one package handed from src to dst: the inventories, the familiarity of
   both endpoints, the tier stocks with their clamps, the availability of
   the receiver; upstream names the tier of src *)
TransferPackage(sim, src, dst, drug_package, drug_max, upstream) ==
    LET agents == sim.agents
        amount == transfer_amount(drug_package, agents[src].drug)
        a1 == [agents EXCEPT ![dst].drug = @ + amount]
        a2 == [a1 EXCEPT ![src].drug = @ - amount]
        a3 == [a2 EXCEPT ![src] = add_connection(@, agents[dst].agent_id)]
        a4 == [a3 EXCEPT ![dst] = add_connection(@, agents[src].agent_id)]
        a5 == [a4 EXCEPT ![src].drug = IF @ < 0 THEN 0 ELSE @]
        a6 == [a5 EXCEPT ![dst].availability =
                            IF a5[dst].drug >= drug_max THEN 0 ELSE 1]
        gs == sim.gs
        gs1 == IF upstream = "trafficker"
               THEN [gs EXCEPT
                       !.stock_drug_traffickers =
                           IF @ - amount < 0 THEN 0
                           ELSE @ - amount,
                       !.stock_drug_packagers = @ + amount]
               ELSE [gs EXCEPT
                       !.stock_drug_packagers =
                           IF @ - amount < 0 THEN 0
                           ELSE @ - amount,
                       !.stock_drug_retailers = @ + amount]
        entry == [src |-> agents[src].agent_id,
                  dst |-> agents[dst].agent_id,
                  amount |-> amount,
                  package |-> drug_package,
                  src_before |-> agents[src].drug,
                  dst_before |-> agents[dst].drug,
                  src_after |-> a6[src].drug,
                  dst_after |-> a6[dst].drug,
                  src_arrested |-> agents[src].is_arrested,
                  dst_arrested |-> agents[dst].is_arrested,
                  dst_type |-> agents[dst].agent_type,
                  dst_availability |-> agents[dst].availability,
                  upstream |-> upstream]
    IN [sim EXCEPT !.agents = a6, !.gs = gs1,
                   !.log.transfers = Append(@, entry)]

(* the loop over the traffickers in _transfer_trafficker_to_packagers *)
RECURSIVE TraffickerLoop(_, _, _, _, _, _)
TraffickerLoop(sim, traffickers, k, packagers, drug_max_packagers, vis) ==
    IF k > Len(traffickers) THEN sim
    ELSE LET trafficker == traffickers[k]
             best_packager == BestPartner(sim.agents, trafficker, packagers,
                                          sim.gs.efficiency_vs_security, vis)
             sim1 == IF sim.agents[trafficker].drug <= 0 \/ best_packager = 0
                     THEN sim
                     ELSE TransferPackage(sim, trafficker, best_packager,
                                          sim.gs.drug_package_of_packagers,
                                          drug_max_packagers, "trafficker")
         IN TraffickerLoop(sim1, traffickers, k + 1, packagers,
                           drug_max_packagers, vis)

(* DrugTraffickingActivities._transfer_trafficker_to_packagers *)
transfer_trafficker_to_packagers(sim, drug_max_packagers) ==
    LET traffickers == get_active_agents_by_type(sim.agents, "trafficker")
        packagers == get_active_agents_by_type(sim.agents, "packager")
    IN IF packagers = <<>> THEN sim
       ELSE TraffickerLoop(sim, traffickers, 1, packagers, drug_max_packagers,
                           VisibilityBounds(sim.agents))

(* the while loop of _transfer_packagers_to_retailers: packages from one
   packager to its best retailer *)
RECURSIVE PackageLoop(_, _, _, _, _, _, _)
PackageLoop(sim, packager, best_retailer, num_packages, drug_package, target_amount, drug_max_retailers) ==
    IF num_packages * drug_package < target_amount
         /\ sim.agents[packager].drug > 0
    THEN PackageLoop(
             TransferPackage(sim, packager, best_retailer, drug_package,
                             drug_max_retailers, "packager"),
             packager, best_retailer, num_packages + 1, drug_package,
             target_amount, drug_max_retailers)
    ELSE sim

(* the loop over the packagers in _transfer_packagers_to_retailers *)
RECURSIVE PackagerLoop(_, _, _, _, _, _, _, _)
PackagerLoop(sim, packagers, k, retailers, drug_package, target_amount, drug_max_retailers, vis) ==
    IF k > Len(packagers) THEN sim
    ELSE LET packager == packagers[k]
             best_retailer == BestPartner(sim.agents, packager, retailers,
                                          sim.gs.efficiency_vs_security, vis)
             sim1 == IF sim.agents[packager].drug <= 0 \/ best_retailer = 0
                     THEN sim
                     ELSE PackageLoop(sim, packager, best_retailer, 0,
                                      drug_package, target_amount,
                                      drug_max_retailers)
         IN PackagerLoop(sim1, packagers, k + 1, retailers, drug_package,
                         target_amount, drug_max_retailers, vis)

(* DrugTraffickingActivities._transfer_packagers_to_retailers *)
transfer_packagers_to_retailers(sim, drug_package, drug_max_retailers) ==
    LET packagers == get_active_agents_by_type(sim.agents, "packager")
        retailers == get_active_agents_by_type(sim.agents, "retailer")
        target_amount == DoseVolume(sim.gs, sim.gs.efficiency_vs_security, 1)
    IN IF retailers = <<>> THEN sim
       ELSE PackagerLoop(sim, packagers, 1, retailers, drug_package,
                         target_amount, drug_max_retailers,
                         VisibilityBounds(sim.agents))

(* the availability/attractiveness refresh loops of package_drug *)
RECURSIVE RefreshLoop(_, _, _, _, _)
RefreshLoop(agents, idx, k, drug_max, r) ==
    IF k > Len(idx) THEN [agents |-> agents, r |-> r]
    ELSE LET r1 == RandNext(r)
             a == update_attractiveness(
                      update_availability(agents[idx[k]], agents[idx[k]].drug,
                                          drug_max), r1)
         IN RefreshLoop([agents EXCEPT ![idx[k]] = a], idx, k + 1, drug_max, r1)

(* package_drug: drug_max_retailers, the inventory at which a retailer
   stops being available *)
DrugMaxRetailers(gs) ==
    IF gs.price_per_dose * gs.retailers_share_of_profits > 0
    THEN (gs.profit_of_retailers_max * gs.gram_per_dose * 100)
            \div (gs.price_per_dose * gs.retailers_share_of_profits)
    ELSE 0

(* package_drug: the hand-over from the packagers to the retailers, q being
   the refreshed retailers and the generator after the refresh *)
PackageRetailers(ctx, sim2, q) ==
    [ctx EXCEPT
       !.s = IF sim2.gs.stock_drug_packagers < sim2.gs.drug_package_of_retailers
             THEN [sim2 EXCEPT !.agents = q.agents,
                               !.gs.n_exhaust_packagers = @ + 1]
             ELSE transfer_packagers_to_retailers(
                      [sim2 EXCEPT !.agents = q.agents],
                      sim2.gs.drug_package_of_retailers,
                      DrugMaxRetailers(sim2.gs)),
       !.r = q.r]

(* package_drug: the refresh of the retailers after the hand-over from the
   traffickers left sim2 *)
PackageRefresh(ctx, r, sim2) ==
    PackageRetailers(
        ctx, sim2,
        RefreshLoop(sim2.agents,
                    get_active_agents_by_type(sim2.agents, "retailer"), 1,
                    DrugMaxRetailers(sim2.gs), r))

(* package_drug: the hand-over from the traffickers to the packagers, p
   being the refreshed packagers and the generator after the refresh *)
PackageTraffickers(ctx, p) ==
    PackageRefresh(
        ctx, p.r,
        IF ctx.s.gs.stock_drug_traffickers <= 0
        THEN [ctx.s EXCEPT !.agents = p.agents,
                           !.gs.n_exhaust_traffickers = @ + 1]
        ELSE transfer_trafficker_to_packagers(
                 [ctx.s EXCEPT !.agents = p.agents], DRUG_MAX_OF_PACKAGERS))

(* DrugTraffickingActivities.package_drug *)
package_drug(ctx, tick) ==
    PackageTraffickers(
        ctx,
        RefreshLoop(ctx.s.agents,
                    get_active_agents_by_type(ctx.s.agents, "packager"), 1,
                    DRUG_MAX_OF_PACKAGERS, ctx.r))


-----------------------------------------------------------------------------
(* activities.py: retail sale *)

(* a selection that takes the first active retailer, whatever it holds *)
FirstSeller(agents, retailers, k, best) == best

(* max(retailers, key = availability * drug): the first of the largest *)
RECURSIVE BestSeller(_, _, _, _)
BestSeller(agents, retailers, k, best) ==
    IF k > Len(retailers) THEN best
    ELSE LET cand == retailers[k]
             better == agents[cand].availability * agents[cand].drug
                         > agents[best].availability * agents[best].drug
         IN BestSeller(agents, retailers, k + 1, IF better THEN cand ELSE best)

(* a retailer that stays available whatever it has earned *)
NeverCapped(availability, profit, profit_max) == availability

(* sell_drug: if best_retailer.profit >= profit_max:
   best_retailer.availability = 0 *)
AvailabilityAfterSale(availability, profit, profit_max) ==
    IF profit >= profit_max THEN 0 ELSE availability

(* one sale: the seller, what it held and had earned, and the key
   availability * drug of every active retailer when it was selected *)
Dose(agents, retailers, best_retailer) ==
    [agent |-> agents[best_retailer].agent_id,
     drug |-> agents[best_retailer].drug,
     profit |-> agents[best_retailer].profit,
     availability |-> agents[best_retailer].availability,
     key |-> agents[best_retailer].availability * agents[best_retailer].drug,
     keys |-> {agents[retailers[k]].availability * agents[retailers[k]].drug :
                 k \in 1 .. Len(retailers)}]

(* the while loop of sell_drug; acc is [s, n_sold, stock_drug_retailers,
   cash_box] with the two locals of the function *)
RECURSIVE SellLoop(_, _)
SellLoop(acc, retailers) ==
    LET gs == acc.s.gs
        agents == acc.s.agents
        unit_dose_now == gs.unit_dose_now
        share == (gs.price_per_dose * gs.retailers_share_of_profits) \div 100
        best_retailer == BestSeller(agents, retailers, 1, retailers[1])
        n_sold == acc.n_sold + 1
        sold == [agents EXCEPT
                   ![best_retailer].drug = @ - gs.gram_per_dose,
                   ![best_retailer].profit = @ + share,
                   ![best_retailer].availability =
                       AvailabilityAfterSale(@, agents[best_retailer].profit
                                                  + share,
                                             gs.profit_of_retailers_max)]
        gs_sold == [gs EXCEPT
                      !.revenues = @ + gs.price_per_dose - share,
                      !.weekly_profit_now =
                          @ + gs.price_per_dose - share
                            - (gs.gram_per_dose * gs.wholesale_price_now) \div GRAM]
        gs_out == [gs EXCEPT
                     !.n_exhaust_retailers = @ + 1,
                     !.n_exhaust_retailers_90 =
                         IF 10 * n_sold < 9 * unit_dose_now THEN @ + 1 ELSE @]
    IN IF acc.n_sold >= unit_dose_now THEN acc
       ELSE IF acc.stock_drug_retailers <= 0 THEN acc
       ELSE IF agents[best_retailer].drug >= gs.gram_per_dose
                 /\ agents[best_retailer].availability > 0
       THEN SellLoop(
                [s |-> [acc.s EXCEPT
                          !.agents = sold, !.gs = gs_sold,
                          !.log.sellers =
                              @ \cup {[agent |-> agents[best_retailer].agent_id,
                                       was_arrested |->
                                           agents[best_retailer].is_arrested]},
                          !.log.doses =
                              Append(@, Dose(agents, retailers, best_retailer))],
                 n_sold |-> n_sold,
                 stock_drug_retailers |->
                     acc.stock_drug_retailers - gs.gram_per_dose,
                 cash_box |-> acc.cash_box + gs.price_per_dose - share],
                retailers)
       ELSE [acc EXCEPT !.s.gs = gs_out]

(* DrugTraffickingActivities.sell_drug *)
sell_drug(ctx, tick) ==
    LET sim0 == ctx.s
        retailers == get_active_agents_by_type(sim0.agents, "retailer")
        reset == Tuple([i \in Indices(sim0.agents) |->
                    IF \E k \in 1 .. Len(retailers) : retailers[k] = i
                    THEN [sim0.agents[i] EXCEPT !.profit = 0, !.availability = 1]
                    ELSE sim0.agents[i]])
        gs0 == sim0.gs
        span1 == Max(0, gs0.unit_dose_min - gs0.unit_dose)
        span2 == Max(0, gs0.unit_dose_max - gs0.unit_dose)
        r1 == IF span1 > 0 THEN RandNext(ctx.r) ELSE ctx.r
        r2 == IF span2 > 0 THEN RandNext(r1) ELSE r1
        unit_dose_now ==
            gs0.unit_dose
              + (IF span1 > 0 THEN RandVal(r1, span1) ELSE 0)
              + (IF span2 > 0 THEN RandVal(r2, span2) ELSE 0)
        gs1 == [gs0 EXCEPT !.unit_dose_now = unit_dose_now]
        profit_per_retailer ==
            Min((unit_dose_now * gs1.price_per_dose
                    * gs1.retailers_share_of_profits)
                  \div (100 * Len(retailers)),
                gs1.profit_of_retailers_max)
        gs2 == [gs1 EXCEPT !.profit_of_retailers = profit_per_retailer]
        done == SellLoop([s |-> [sim0 EXCEPT !.agents = reset, !.gs = gs2],
                          n_sold |-> 0,
                          stock_drug_retailers |-> gs2.stock_drug_retailers,
                          cash_box |-> gs2.cash_box],
                         retailers)
        gs3 == [done.s.gs EXCEPT
                  !.stock_drug_retailers = done.stock_drug_retailers,
                  !.stock_drug = done.s.gs.stock_drug_traffickers
                                   + done.s.gs.stock_drug_packagers
                                   + done.stock_drug_retailers,
                  !.cash_box = done.cash_box]
    IN IF retailers = <<>>
       THEN [ctx EXCEPT !.s.agents = reset, !.s.gs = gs1, !.r = r2]
       ELSE [ctx EXCEPT !.s = [done.s EXCEPT !.gs = gs3], !.r = r2]


-----------------------------------------------------------------------------
(* law_enforcement.py *)

(* random.uniform(0, hi) for hi in hundredths: eight levels *)
Uniform(r, hi) == ((2 * RandVal(r, 8) + 1) * hi) \div 16

(* an arrest that also takes the member out of every relationship it holds *)
ArrestAndForget(agent, tick) ==
    [agent EXCEPT !.is_arrested = TRUE, !.arrest_date = tick,
                  !.connections = {}, !.link_data = << >>]

(* LawEnforcement._arrest_agent *)
arrest_agent(agent, tick) ==
    [agent EXCEPT !.is_arrested = TRUE, !.arrest_date = tick]

(* LawEnforcement._update_arrest_counts (the minor counters; the major
   counters are updated by count difference in perform_major_arrest) *)
update_arrest_counts(gs, agent, is_major) ==
    IF is_major
    THEN CASE agent.agent_type = "trafficker" ->
                [gs EXCEPT !.n_arrested_traffickers_major = @ + 1]
           [] agent.agent_type = "packager" ->
                [gs EXCEPT !.n_arrested_packagers_major = @ + 1]
           [] agent.agent_type = "retailer" ->
                [gs EXCEPT !.n_arrested_retailers_major = @ + 1]
           [] OTHER -> gs
    ELSE CASE agent.agent_type = "trafficker" ->
                [gs EXCEPT !.n_arrested_traffickers_minor = @ + 1]
           [] agent.agent_type = "packager" ->
                [gs EXCEPT !.n_arrested_packagers_minor = @ + 1]
           [] agent.agent_type = "retailer" ->
                [gs EXCEPT !.n_arrested_retailers_minor = @ + 1]
           [] OTHER -> gs

(* the inventory held by the active members of one role *)
RECURSIVE RoleStock(_, _, _)
RoleStock(agents, agent_type, i) ==
    IF i > Len(agents) THEN 0
    ELSE (IF ~agents[i].is_arrested /\ agents[i].agent_type = agent_type
          THEN agents[i].drug ELSE 0)
         + RoleStock(agents, agent_type, i + 1)

(* LawEnforcement._recalculate_drug_stocks *)
recalculate_drug_stocks(sim) ==
    LET stock_drug_traffickers == RoleStock(sim.agents, "trafficker", 1)
        stock_drug_packagers == RoleStock(sim.agents, "packager", 1)
        stock_drug_retailers == RoleStock(sim.agents, "retailer", 1)
    IN [sim EXCEPT
          !.gs.stock_drug_traffickers = stock_drug_traffickers,
          !.gs.stock_drug_packagers = stock_drug_packagers,
          !.gs.stock_drug_retailers = stock_drug_retailers,
          !.gs.stock_drug = stock_drug_traffickers + stock_drug_packagers
                              + stock_drug_retailers]

(* a confiscation that leaves the arrested members their inventory *)
LeaveInventory(sim, arrested) == recalculate_drug_stocks(sim)

(* LawEnforcement._confiscate_drugs: arrested is a set of indices *)
confiscate_drugs(sim, arrested) ==
    LET held == [i \in Indices(sim.agents) |->
                    IF i \in arrested THEN sim.agents[i].drug ELSE 0]
        total_confiscated == SumSeq(held)
        emptied == Tuple([i \in Indices(sim.agents) |->
                      IF i \in arrested
                      THEN [sim.agents[i] EXCEPT !.drug = 0]
                      ELSE sim.agents[i]])
    IN recalculate_drug_stocks(
           [sim EXCEPT !.agents = emptied,
                       !.gs.stock_drug = Max(0, @ - total_confiscated)])

(* LawEnforcement.perform_minor_arrests *)
perform_minor_arrests(ctx, tick) ==
    IF tick % MONTH # MINOR_ARREST_DAY THEN ctx
    ELSE
      LET eta == ctx.s.gs.efficiency_vs_security
          r1 == RandNext(ctx.r)
          tabled == eta \in {0, 2, 4, 6, 8, 10}
          r2 == IF tabled THEN RandNext(r1) ELSE r1
          hi == CASE eta = 0 -> 101 [] eta = 2 -> 84 [] eta = 4 -> 67
                  [] eta = 6 -> 80 [] eta = 8 -> 200 [] eta = 10 -> 99
                  [] OTHER -> 999
          rd == Uniform(r2, hi)
          active_agents == get_active_agents(ctx.s.agents)
          r3 == RandNext(r2)
          arrested == active_agents[RandVal(r3, Len(active_agents)) + 1]
          agent == ctx.s.agents[arrested]
          gs1 == update_arrest_counts(ctx.s.gs, agent, FALSE)
          gs2 == CASE agent.agent_type = "trafficker" ->
                        [gs1 EXCEPT !.fm_traffickers_wage = @ + 1]
                   [] agent.agent_type = "packager" ->
                        [gs1 EXCEPT !.fm_packagers_wage = @ + 1]
                   [] agent.agent_type = "retailer" ->
                        [gs1 EXCEPT !.fm_retailers_wage = @ + 1]
                   [] OTHER -> gs1
          sim1 == [ctx.s EXCEPT
                     !.agents[arrested] =
                         [arrest_agent(agent, tick) EXCEPT !.drug = 0],
                     !.gs = gs2,
                     !.log.arrests =
                         @ \cup {[agent |-> agent.agent_id,
                                  was_arrested |-> agent.is_arrested]}]
      IN IF rd > 100 - 10 * eta /\ active_agents # <<>>
         THEN [ctx EXCEPT !.s = recalculate_drug_stocks(sim1), !.r = r3]
         ELSE [ctx EXCEPT !.r = r2]

(* random.sample(population, k): k draws, each moving the last element of
   the pool into the place of the selected one; the selected indices *)
RECURSIVE Sample(_, _, _, _)
Sample(pool, k, r, selected) ==
    IF k = 0 THEN [selected |-> selected, r |-> r]
    ELSE LET r1 == RandNext(r)
             n == Len(pool)
             j == RandVal(r1, n) + 1
             pool1 == [i \in 1 .. (n - 1) |-> IF i = j THEN pool[n] ELSE pool[i]]
         IN Sample(pool1, k - 1, r1, selected \cup {pool[j]})


(* arrested_count of perform_major_arrest for the arrested% mode: rd is
   random.random() in tenths, n the size of the target group *)
ArrestedCount(disruption_mode, eta, arrest_percentage, rd, n) ==
    LET \* rd = 10 + rd * 10, resp. -5 + rd * 10, in tenths of a percent
        up == 100 + 10 * rd
        around == 10 * rd - 50
        modified_arrested ==   \* in thousandths of a percent
            IF disruption_mode = "scenario1" THEN arrest_percentage * 1000
            ELSE IF eta < 6 THEN arrest_percentage * (1000 - up)
            ELSE IF eta = 6 THEN arrest_percentage * (1000 + around)
            ELSE arrest_percentage * (1000 + up)
        arrested_count == (modified_arrested * n) \div 100000
    IN IF arrested_count > n THEN n ELSE arrested_count

(* the scope of perform_major_arrest without the role restriction *)
WholeScope(agents, target_of_disruption) == get_active_agents(agents)

(* perform_major_arrest: the target group named by target_of_disruption *)
TargetAgents(agents, target_of_disruption) ==
    IF target_of_disruption = "traffickers"
    THEN get_active_agents_by_type(agents, "trafficker")
    ELSE IF target_of_disruption = "packagers"
    THEN get_active_agents_by_type(agents, "packager")
    ELSE IF target_of_disruption = "retailers"
    THEN get_active_agents_by_type(agents, "retailer")
    ELSE get_active_agents(agents)

(* LawEnforcement.perform_major_arrest (arrested_mode is "arrested%",
   n_disruptions_obs is never set) *)
perform_major_arrest(ctx, tick, arrest_percentage) ==
    LET sim0 == ctx.s
        target_agents == TargetAgents(sim0.agents, sim0.gs.target_of_disruption)
        ntra == Len(get_active_agents_by_type(sim0.agents, "trafficker"))
        npac == Len(get_active_agents_by_type(sim0.agents, "packager"))
        nret == Len(get_active_agents_by_type(sim0.agents, "retailer"))
        arf == nret
        dmf == Len(get_active_agents(sim0.agents))
        r1 == RandNext(ctx.r)
        arrested_count ==
            ArrestedCount(sim0.gs.disruption_mode,
                          sim0.gs.efficiency_vs_security, arrest_percentage,
                          RandVal(r1, 10), Len(target_agents))
        picked == Sample(target_agents, arrested_count, r1, {})
        arrested_agents == picked.selected
        marked == Tuple([i \in Indices(sim0.agents) |->
                     IF i \in arrested_agents
                     THEN arrest_agent(sim0.agents[i], tick)
                     ELSE sim0.agents[i]])
        sim1 == IF arrested_count > 0
                THEN confiscate_drugs([sim0 EXCEPT !.agents = marked],
                                      arrested_agents)
                ELSE sim0
        current_traffickers ==
            Len(get_active_agents_by_type(sim1.agents, "trafficker"))
        current_packagers ==
            Len(get_active_agents_by_type(sim1.agents, "packager"))
        current_retailers ==
            Len(get_active_agents_by_type(sim1.agents, "retailer"))
        current_total == Len(get_active_agents(sim1.agents))
        gs1 == [sim1.gs EXCEPT
                  !.n_arrested_traffickers_major =
                      IF ntra > current_traffickers
                      THEN @ + (ntra - current_traffickers) ELSE @,
                  !.n_arrested_packagers_major =
                      IF npac > current_packagers
                      THEN @ + (npac - current_packagers) ELSE @,
                  !.n_arrested_retailers_major =
                      IF nret > current_retailers
                      THEN @ + (nret - current_retailers) ELSE @,
                  \* the two family counts are kept in hundredths
                  !.dead_members_family =
                      10 * dmf + 100 * ((dmf - current_total)
                                          - (arf - current_retailers)),
                  !.arrested_retailers_family =
                      56 * arf + 100 * (arf - current_retailers)]
        sim2 == recalculate_drug_stocks([sim1 EXCEPT !.gs = gs1])
        sim3 == [sim2 EXCEPT
                   !.gs.ticks_disruption = tick,
                   !.log.major = TRUE,
                   !.log.scope =
                       {sim0.agents[target_agents[k]].agent_id :
                            k \in 1 .. Len(target_agents)},
                   !.log.arrests =
                       @ \cup {[agent |-> sim0.agents[i].agent_id,
                                was_arrested |-> sim0.agents[i].is_arrested] :
                                   i \in arrested_agents}]
    IN IF target_agents = <<>> THEN ctx
       ELSE [ctx EXCEPT !.s = sim3, !.r = picked.r]

(* LawEnforcement.apply_acquisition_disruption: step() ignores the result,
   the draws remain *)
apply_acquisition_disruption(ctx, tick) ==
    LET gs == ctx.s.gs
        td == gs.ticks_disruption
        in_window == td # None /\ tick > td
                       /\ tick <= td + gs.stop_acquire_days
        first_half == td # None /\ tick > td
                        /\ 2 * tick <= 2 * td + gs.stop_acquire_days
        r1 == RandNext(ctx.r)
        r2 == RandNext(r1)
    IN IF ~in_window THEN ctx
       ELSE IF first_half /\ RandVal(r1, 100) <= gs.arrested_pct
       THEN [ctx EXCEPT !.r = r1]
       ELSE IF first_half THEN [ctx EXCEPT !.r = r2]
       ELSE [ctx EXCEPT !.r = r1]

(* LawEnforcement.check_organization_viability *)
check_organization_viability(sim) ==
    /\ Len(get_active_agents_by_type(sim.agents, "trafficker")) # 0
    /\ Len(get_active_agents_by_type(sim.agents, "packager")) # 0
    /\ Len(get_active_agents_by_type(sim.agents, "retailer")) # 0
    /\ ~(sim.gs.cash_box < 0)


-----------------------------------------------------------------------------
(* simulation.py: weekly expenses *)

(* MADTORSimulation._account_for_expenses *)
account_for_expenses(ctx) ==
    LET sim == ctx.s
        gs == sim.gs
        traffickers == get_active_agents_by_type(sim.agents, "trafficker")
        packagers == get_active_agents_by_type(sim.agents, "packager")
        retailers == get_active_agents_by_type(sim.agents, "retailer")
        weekly_cost == gs.cost_per_day * WEEK
        wage_traff_pack ==
            (gs.profit_of_traffickers * Len(traffickers)
               + gs.profit_of_packagers * Len(packagers)) * WEEK
        \* the family counts and the expected counts are in hundredths
        base_retailer_support ==
            Max(Len(retailers) * 56, gs.arrested_retailers_family)
        retailer_family_wage ==
            (base_retailer_support * ARRESTED_RETAILERS_WEEKLY_WAGE) \div 100
              + gs.fm_retailers_wage * ARRESTED_RETAILERS_WEEKLY_WAGE
        base_dead_support ==
            Max((Len(traffickers) + Len(packagers) + Len(retailers)) * 10,
                gs.dead_members_family)
        dead_members_wage ==
            (base_dead_support * ARRESTED_OTHER_WEEKLY_WAGE) \div 100
              + (gs.fm_traffickers_wage + gs.fm_packagers_wage)
                  * ARRESTED_OTHER_WEEKLY_WAGE
        total == weekly_cost + wage_traff_pack + retailer_family_wage
                   + dead_members_wage + gs.arrested_homicide_family_wages
        weekly_profit_max == gs.weekly_profit
        weekly_profit_min == (gs.weekly_profit * 9) \div 10
        r1 == RandNext(ctx.r)
        \* random.uniform(-0.1 * w, 0.1 * w): one of -0.1 w, 0, 0.1 w
        fluctuation == (RandVal(r1, 3) - 1) * TruncDiv(gs.weekly_profit_now, 10)
        noisy == gs.weekly_profit_now + fluctuation
        weekly_profit_now == IF noisy > weekly_profit_max THEN weekly_profit_max
                             ELSE IF noisy < weekly_profit_min
                             THEN weekly_profit_min ELSE noisy
    IN [ctx EXCEPT
          !.r = r1,
          !.s.gs = [gs EXCEPT
                      !.cash_box = @ - total,
                      !.expenses = @ + total,
                      !.n_weekly_profit_max =
                          IF noisy > weekly_profit_max THEN @ + 1 ELSE @,
                      !.n_weekly_profit_min =
                          IF ~(noisy > weekly_profit_max)
                               /\ noisy < weekly_profit_min
                          THEN @ + 1 ELSE @,
                      !.n_weekly_profit_neg =
                          IF weekly_profit_now < 0 THEN @ + 1 ELSE @,
                      !.weekly_profit_now = 0]]


-----------------------------------------------------------------------------
(* simulation.py: the monthly parameter update *)

(* math.log in fixed point.  LnRatio(num, den) is ln(num / den) for
   num >= den > 0 in units of 10^-5: halving down to [1, 2), then
   2 * atanh((x - 1) / (x + 1)) by its series. *)
RECURSIVE LnRatio(_, _)
LnRatio(num, den) ==
    IF num >= 2 * den THEN 69315 + LnRatio(num, 2 * den)
    ELSE LET scale == (num + den) \div 20000 + 1
             z == (((num - den) \div scale) * 100000) \div ((num + den) \div scale)
             z2 == (z * z) \div 100000
             z3 == (z * z2) \div 100000
             z5 == (z3 * z2) \div 100000
             z7 == (z5 * z2) \div 100000
         IN 2 * (z + z3 \div 3 + z5 \div 5 + z7 \div 7)

(* round(log_growth(base_val, target_val, ticks_counter)) of
   _update_parameters, with tick_max = 2 * TICKS_PER_YEAR *)
log_growth(base_val, target_val, ticks_counter) ==
    LET y_range == target_val - base_val
        tick_max == 2 * TICKS_PER_YEAR
        lnx == LnRatio(tick_max + ticks_counter * y_range, tick_max) \div 10
        lnb == LnRatio(y_range + 1, 1) \div 10
        frac == (lnx * 10000) \div lnb
    IN IF y_range <= 0 THEN base_val
       ELSE base_val + (y_range * frac + 5000) \div 10000

(* MADTORSimulation._is_recruitment_paused: the generator state after its
   draws, and the answer *)
is_recruitment_paused(gs, tick, r) ==
    LET td == gs.ticks_disruption
        in_window == td # None /\ tick > td
                       /\ tick <= td + gs.stop_acquire_days
        first_half == 2 * tick <= 2 * td + gs.stop_acquire_days
        eta == gs.efficiency_vs_security
        r1 == RandNext(r)
        r2 == RandNext(r1)
    IN IF ~in_window \/ gs.arrested_pct = 0 THEN [r |-> r, paused |-> FALSE]
       ELSE IF first_half
       THEN IF RandVal(r1, 100) <= gs.arrested_pct
            THEN [r |-> r1, paused |-> TRUE]
            ELSE [r |-> r2, paused |-> Uniform11(r2) <= 10 - eta]
       ELSE [r |-> r1, paused |-> Uniform11(r1) <= 10 - eta]

(* a recruitment branch of _update_parameters that went as far as
   constructing the new member: Agent.__init__ takes an id and a draw, then
   self.network.add_agent raises AttributeError (Network has no add_agent) *)
RecruitRaises(ctx, agent_type) ==
    LET a == NewAgent(agent_type, ctx.r, ctx.c)
    IN [ctx EXCEPT !.r = a.r, !.c = a.c, !.raised = TRUE,
                   !.s.log.recruit = agent_type]

(* the end of _update_parameters: target stock, cost per day, the clamped
   profits, the weekly profit and the year-based prices; supply_costs is the
   one read before the price update, and gs3 still carries those prices *)
TailProfits(ctx, tick, gs3, n_traffickers, n_packagers, n_retailers, cost_per_day) ==
    LET margin == (cost_per_day * (gs3.retail_price - gs3.wholesale_price))
                      \div gs3.retail_price
        wholesale_price ==
            IF tick > 2 * TICKS_PER_YEAR THEN WHOLESALE_PRICE_2010
            ELSE IF tick > TICKS_PER_YEAR THEN WHOLESALE_PRICE_2009
            ELSE gs3.wholesale_price
        retail_price ==
            IF tick > 2 * TICKS_PER_YEAR THEN RETAIL_PRICE_2010
            ELSE IF tick > TICKS_PER_YEAR THEN RETAIL_PRICE_2009
            ELSE gs3.retail_price
    IN [ctx EXCEPT !.s.gs =
           [gs3 EXCEPT
              !.target_stock_drug =
                  gs3.unit_dose * gs3.gram_per_dose * START_UP_MONTHS * 30,
              !.cost_per_day = cost_per_day,
              !.profit_of_traffickers =
                  Max(gs3.profit_of_traffickers_min,
                      Min(gs3.profit_of_traffickers_max,
                          (margin * gs3.traffickers_share_of_profits)
                             \div (100 * n_traffickers))),
              !.profit_of_packagers =
                  Max(gs3.profit_of_packagers_min,
                      Min(gs3.profit_of_packagers_max,
                          (margin * (100 - gs3.traffickers_share_of_profits))
                             \div (100 * n_packagers))),
              !.profit_of_retailers =
                  Min(gs3.profit_of_retailers_max,
                      (gs3.unit_dose * gs3.price_per_dose
                         * gs3.retailers_share_of_profits)
                        \div (100 * n_retailers)),
              !.weekly_profit =
                  log_growth(WEEKLY_PROFIT_2008, WEEKLY_PROFIT_2010, tick),
              !.wholesale_price = wholesale_price,
              !.retail_price = retail_price,
              !.wholesale_price_now = wholesale_price]]

(* the drug packages per role of _update_parameters, each with its early
   return that stops the simulation when the role has no active member *)
TailPackages(ctx, tick, gs1, volume, n_traffickers, n_packagers, n_retailers) ==
    IF n_traffickers = 0
    THEN [ctx EXCEPT !.s.gs = gs1, !.s.running = FALSE]
    ELSE IF n_packagers = 0
    THEN [ctx EXCEPT
            !.s.gs = [gs1 EXCEPT !.drug_package_of_traffickers =
                                     (volume * 30) \div n_traffickers],
            !.s.running = FALSE]
    ELSE IF n_retailers = 0
    THEN [ctx EXCEPT
            !.s.gs = [gs1 EXCEPT
                        !.drug_package_of_traffickers =
                            (volume * 30) \div n_traffickers,
                        !.drug_package_of_packagers = volume \div n_packagers],
            !.s.running = FALSE]
    ELSE TailProfits(ctx, tick,
                     [gs1 EXCEPT
                        !.drug_package_of_traffickers =
                            (volume * 30) \div n_traffickers,
                        !.drug_package_of_packagers = volume \div n_packagers],
                     n_traffickers, n_packagers, n_retailers,
                     log_growth(COST_PER_DAY_2008, COST_PER_DAY_2010, tick))

(* the unit doses of _update_parameters (gs1) and the dose volume the
   packages are computed from *)
TailDoses(ctx, tick, gs1) ==
    TailPackages(ctx, tick, gs1,
                 DoseVolume(gs1, ctx.s.efficiency_vs_security, 1),
                 Len(get_active_agents_by_type(ctx.s.agents, "trafficker")),
                 Len(get_active_agents_by_type(ctx.s.agents, "packager")),
                 Len(get_active_agents_by_type(ctx.s.agents, "retailer")))

(* the part of _update_parameters after the recruitment blocks *)
UpdateTail(ctx, tick) ==
    TailDoses(ctx, tick,
              [ctx.s.gs EXCEPT
                 !.unit_dose = log_growth(UNIT_DOSE_2008, UNIT_DOSE_2010, tick),
                 !.unit_dose_min =
                     log_growth(UNIT_DOSE_MIN_2008, UNIT_DOSE_MIN_2010, tick),
                 !.unit_dose_max =
                     log_growth(UNIT_DOSE_MAX_2008, UNIT_DOSE_MAX_2010, tick)])

(* the retailer recruitment block of _update_parameters and what follows *)
UpdateRetailers(ctx, tick) ==
    LET sim == ctx.s
        eta == sim.efficiency_vs_security
        n_retailers == Len(get_active_agents_by_type(sim.agents, "retailer"))
        y_retailers == log_growth(RETAILERS_2008, RETAILERS_2010, tick)
        r1 == RandNext(ctx.r)
        \* random.uniform(0, 2) in tenths
        rd == RandVal(r1, 21)
        drawn == [ctx EXCEPT !.r = r1]
    IN IF n_retailers = 0 \/ (y_retailers > n_retailers /\ rd > 10 - eta)
       THEN RecruitRaises(drawn, "retailer")
       ELSE UpdateTail(drawn, tick)

(* the packager recruitment block of _update_parameters and what follows;
   rd is drawn whenever the head count is below its target *)
UpdatePackagers(ctx, tick) ==
    LET sim == ctx.s
        gs == sim.gs
        eta == sim.efficiency_vs_security
        n_packagers == Len(get_active_agents_by_type(sim.agents, "packager"))
        y_packagers == log_growth(PACKAGERS_2008, PACKAGERS_2010, tick)
        due == n_packagers = 0 \/ y_packagers > n_packagers
        profit_of_packagers ==
            (DailyMargin(gs) * (100 - gs.traffickers_share_of_profits))
                \div (100 * (n_packagers + 1))
        r1 == RandNext(ctx.r)
        \* random.uniform(0, 1.5) in tenths
        rd == RandVal(r1, 16)
        drawn == [ctx EXCEPT !.r = r1]
    IN IF due /\ profit_of_packagers > gs.profit_of_packagers_min
             /\ rd > 10 - eta
       THEN RecruitRaises(drawn, "packager")
       ELSE UpdateRetailers(IF due THEN drawn ELSE ctx, tick)

(* the trafficker recruitment block of _update_parameters and what
   follows; ctx1 is the context after the pause check *)
UpdateTraffickers(ctx1, tick) ==
    LET sim == ctx1.s
        gs == sim.gs
        eta == sim.efficiency_vs_security
        n_traffickers == Len(get_active_agents_by_type(sim.agents, "trafficker"))
        y_traffickers == log_growth(TRAFFICKERS_2008, TRAFFICKERS_2010, tick)
        due == n_traffickers = 0 \/ y_traffickers > n_traffickers
        profit_of_traffickers ==
            (DailyMargin(gs) * gs.traffickers_share_of_profits)
                \div (100 * (n_traffickers + 1))
        r1 == RandNext(ctx1.r)
        rd == Uniform11(r1)
        drawn == [ctx1 EXCEPT !.r = r1]
    IN IF due /\ profit_of_traffickers > gs.profit_of_traffickers_min
             /\ rd > 10 - eta
       THEN RecruitRaises(drawn, "trafficker")
       ELSE UpdatePackagers(IF due THEN drawn ELSE ctx1, tick)

(* the pause check of _update_parameters: a paused month returns at once *)
UpdateUnlessPaused(ctx, tick, gs, pause) ==
    IF pause.paused THEN [ctx EXCEPT !.s.gs = gs, !.r = pause.r]
    ELSE UpdateTraffickers([ctx EXCEPT !.s.gs = gs, !.r = pause.r], tick)

(* the scenario-3 schedule adjustment of _update_parameters *)
UpdateSchedule(ctx, tick, gs) ==
    UpdateUnlessPaused(ctx, tick, gs, is_recruitment_paused(gs, tick, ctx.r))

(* MADTORSimulation._update_parameters *)
update_parameters(ctx, tick) ==
    LET gs0 == ctx.s.gs
        sched == Scenario3Schedule(gs0.ticks_disruption)
    IN UpdateSchedule(ctx, tick,
                      IF ctx.s.disruption_mode = "scenario3" /\ sched # None
                      THEN [gs0 EXCEPT !.stop_acquire_days = sched] ELSE gs0)

(* MADTORSimulation._update_agent_counts *)
update_agent_counts(sim) ==
    [sim EXCEPT
       !.gs.n_active_traffickers =
           Len(get_active_agents_by_type(sim.agents, "trafficker")),
       !.gs.n_active_packagers =
           Len(get_active_agents_by_type(sim.agents, "packager")),
       !.gs.n_active_retailers =
           Len(get_active_agents_by_type(sim.agents, "retailer"))]


-----------------------------------------------------------------------------
(* statistics.py *)

(* the breadth-first search of _compute_components: the ids reachable from
   the ids in seen along connections (arrested members are traversed) *)
RECURSIVE Component(_, _)
Component(agents, seen) ==
    LET next == seen \cup UNION {agents[IndexOf(agents, id)].connections :
                                    id \in seen \cap AgentIds(agents)}
    IN IF next = seen THEN seen ELSE Component(agents, next)

(* NetworkStatistics.compute_all_statistics: the n_components metric *)
compute_all_statistics(sim) ==
    LET active_agents == get_active_agents(sim.agents)
        components == {Component(sim.agents, {sim.agents[active_agents[k]].agent_id}) :
                          k \in 1 .. Len(active_agents)}
    IN [n_components |-> Cardinality(components)]

(* a metric that Python holds as a float: the quotient num / den; a den of 0
   stands for the ZeroDivisionError of the division *)
Frac(num, den) == [num |-> num, den |-> den]

Zero == Frac(0, 1)

(* the values of a list or a dict *)
Range(f) == {f[x] : x \in DOMAIN f}

(* the largest and the smallest element of a non-empty set of integers *)
MaxOf(S) == CHOOSE m \in S : \A x \in S : x <= m

MinOf(S) == CHOOSE m \in S : \A x \in S : m <= x

(* the order in which a set of member ids is iterated: ascending, as CPython
   iterates a set of small non-negative integers *)
RECURSIVE Ascending(_)
Ascending(S) ==
    IF S = {} THEN << >> ELSE <<MinOf(S)>> \o Ascending(S \ {MinOf(S)})

(* NetworkStatistics._empty_stats *)
empty_stats ==
    [n_components |-> 0, max_component |-> 0,
     min_ndegree |-> Zero, avg_ndegree |-> Zero, max_ndegree |-> Zero,
     cen_ndegree |-> Zero,
     min_nbetweenness |-> Zero, avg_nbetweenness |-> Zero,
     max_nbetweenness |-> Zero, cen_nbetweenness |-> Zero,
     average_path_length |-> Zero]

(* NetworkStatistics._compute_components: the search starts at every active
   member and follows the connections of whoever it reaches *)
ComponentsOf(agents, active_agents) ==
    {Component(agents, {agents[active_agents[k]].agent_id}) :
        k \in 1 .. Len(active_agents)}

ComponentStats(components) ==
    [n_components |-> Cardinality(components),
     max_component |-> IF components = {} THEN 0
                       ELSE MaxOf({Cardinality(c) : c \in components})]

compute_components(agents) ==
    ComponentStats(ComponentsOf(agents, get_active_agents(agents)))

(* NetworkStatistics._compute_degree_centrality for n > 1 active members:
   degree is the member's get_degree(), the normalised degree degree / (n - 1) *)
DegreeStats(degree, n) ==
    [min_ndegree |-> Frac(MinOf(Range(degree)), n - 1),
     avg_ndegree |-> Frac(SumSeq(degree), (n - 1) * n),
     max_ndegree |-> Frac(MaxOf(Range(degree)), n - 1),
     cen_ndegree |->
         IF MaxOf(Range(degree)) > 0 /\ n > 2
         THEN Frac(SumSeq([k \in 1 .. n |-> MaxOf(Range(degree)) - degree[k]]),
                   (n - 1) * (n - 1) * (n - 2))
         ELSE Zero]

(* NetworkStatistics._compute_degree_centrality *)
compute_degree_centrality(agents, active_agents) ==
    IF Len(active_agents) <= 1
    THEN [min_ndegree |-> Zero, avg_ndegree |-> Zero, max_ndegree |-> Zero,
          cen_ndegree |-> Zero]
    ELSE DegreeStats([k \in 1 .. Len(active_agents) |->
                         get_degree(agents[active_agents[k]])],
                     Len(active_agents))

(* the loop of _find_shortest_path: queue holds the paths found so far, each
   ending in the member it waits to visit; a member's partners are appended
   in iteration order when they are active and not visited *)
RECURSIVE PathSearch(_, _, _, _, _)
PathStep(agents, active_ids, target, queue, visited, path, agent_id) ==
    IF agent_id \in visited
    THEN PathSearch(agents, active_ids, target, Tail(queue), visited)
    ELSE IF agent_id = target THEN path
    ELSE PathSearch(agents, active_ids, target,
                    Tail(queue) \o
                      [k \in 1 .. Cardinality((agents[IndexOf(agents, agent_id)].connections
                                                 \cap active_ids)
                                                 \ (visited \cup {agent_id})) |->
                          Append(path,
                                 Ascending((agents[IndexOf(agents, agent_id)].connections
                                              \cap active_ids)
                                              \ (visited \cup {agent_id}))[k])],
                    visited \cup {agent_id})

PathSearch(agents, active_ids, target, queue, visited) ==
    IF queue = << >> THEN << >>
    ELSE PathStep(agents, active_ids, target, queue, visited, Head(queue),
                  Head(queue)[Len(Head(queue))])

(* NetworkStatistics._find_shortest_path *)
find_shortest_path(agents, active_ids, source, target) ==
    IF source = target THEN <<source>>
    ELSE PathSearch(agents, active_ids, target, << <<source>> >>, {})

(* the members strictly between the ends of a path *)
Intermediates(path) == {path[k] : k \in 2 .. (Len(path) - 1)}

(* betweenness_scores: for every ordered pair of distinct active members, the
   members strictly inside the path found score one *)
BetweennessScores(active_ids, inside) ==
    [id \in active_ids |->
        Cardinality({p \in DOMAIN inside : id \in inside[p]})]

(* NetworkStatistics._compute_betweenness_centrality for n > 1 active
   members: norm_factor is 2 / ((n - 1) * (n - 2)) for n > 2 and 1 otherwise *)
BetweennessStats(scores, n, norm_num, norm_den) ==
    [min_nbetweenness |-> Frac(MinOf(Range(scores)) * norm_num, norm_den),
     avg_nbetweenness |-> Frac(SumSeq(scores) * norm_num, norm_den * n),
     max_nbetweenness |-> Frac(MaxOf(Range(scores)) * norm_num, norm_den),
     cen_nbetweenness |->
         IF MaxOf(Range(scores)) > 0
         THEN Frac(SumSeq([k \in 1 .. n |-> MaxOf(Range(scores)) - scores[k]])
                     * norm_num,
                   norm_den * (n - 1) * (n - 2))
         ELSE Zero]

(* the scores in the order of the active members *)
ScoreList(agents, active_agents, scores) ==
    [k \in 1 .. Len(active_agents) |-> scores[agents[active_agents[k]].agent_id]]

(* the interior of the path found for every ordered pair of distinct active
   members *)
PathInteriors(agents, active_ids) ==
    [p \in {q \in active_ids \X active_ids : q[1] # q[2]} |->
        Intermediates(find_shortest_path(agents, active_ids, p[1], p[2]))]

(* NetworkStatistics._compute_betweenness_centrality *)
compute_betweenness_centrality(agents, active_agents) ==
    IF Len(active_agents) < 2
    THEN [min_nbetweenness |-> Zero, avg_nbetweenness |-> Zero,
          max_nbetweenness |-> Zero, cen_nbetweenness |-> Zero]
    ELSE BetweennessStats(
             ScoreList(agents, active_agents,
                       BetweennessScores(
                           {agents[active_agents[k]].agent_id :
                               k \in 1 .. Len(active_agents)},
                           PathInteriors(agents,
                               {agents[active_agents[k]].agent_id :
                                   k \in 1 .. Len(active_agents)}))),
             Len(active_agents),
             IF Len(active_agents) > 2 THEN 2 ELSE 1,
             IF Len(active_agents) > 2
             THEN (Len(active_agents) - 1) * (Len(active_agents) - 2) ELSE 1)

(* NetworkStatistics._bfs_distances: the pairs <<id, distance>> of the
   members reached from the frontier along connections, arrested members
   included *)
RECURSIVE bfs_distances(_, _, _, _)
bfs_distances(agents, frontier, visited, dist) ==
    IF frontier = {} THEN {}
    ELSE {<<id, dist>> : id \in frontier}
         \cup bfs_distances(agents,
                            UNION {agents[IndexOf(agents, id)].connections :
                                      id \in frontier \cap AgentIds(agents)}
                              \ (visited \cup frontier),
                            visited \cup frontier, dist + 1)

(* the distance _compute_geodesic takes for a target: the one found, or the
   largest one found plus 1 *)
GeodesicDistance(distances, target) ==
    IF \E d \in distances : d[1] = target
    THEN (CHOOSE d \in distances : d[1] = target)[2]
    ELSE MaxOf({d[2] : d \in distances}) + 1

(* NetworkStatistics._compute_geodesic *)
compute_geodesic(agents, active_agents) ==
    IF Len(active_agents) < 2 THEN [average_path_length |-> Zero]
    ELSE [average_path_length |->
             Frac(SumSeq([s \in 1 .. Len(active_agents) |->
                     SumSeq([t \in 1 .. Len(active_agents) |->
                        IF s = t THEN 0
                        ELSE GeodesicDistance(
                                 bfs_distances(agents,
                                     {agents[active_agents[s]].agent_id}, {}, 0),
                                 agents[active_agents[t]].agent_id)])]),
                  Len(active_agents) * (Len(active_agents) - 1))]

(* NetworkStatistics.compute_all_statistics, every metric *)
all_statistics(agents) ==
    IF get_active_agents(agents) = << >> THEN empty_stats
    ELSE compute_components(agents)
         @@ compute_degree_centrality(agents, get_active_agents(agents))
         @@ compute_betweenness_centrality(agents, get_active_agents(agents))
         @@ compute_geodesic(agents, get_active_agents(agents))

(* DataCollector.record: one value appended to every column *)
record(data, tick, global_state, network_stats) ==
    [data EXCEPT
       !.tick = Append(@, tick),
       !.n_traffickers = Append(@, global_state.n_active_traffickers),
       !.n_packagers = Append(@, global_state.n_active_packagers),
       !.n_retailers = Append(@, global_state.n_active_retailers),
       !.n_total_members =
           Append(@, global_state.n_active_traffickers
                       + global_state.n_active_packagers
                       + global_state.n_active_retailers),
       !.cash_box = Append(@, global_state.cash_box),
       !.revenues = Append(@, global_state.revenues),
       !.expenses = Append(@, global_state.expenses),
       !.stock_drug = Append(@, global_state.stock_drug),
       !.n_acquisition = Append(@, global_state.n_acquisition),
       !.unit_dose_now = Append(@, global_state.unit_dose_now),
       !.n_components = Append(@, network_stats.n_components)]

-----------------------------------------------------------------------------
(* simulation.py: step, run, get_results *)

(* what a member holds and earns, as a stage of step() left it *)
Holding(agent) ==
    [agent_type |-> agent.agent_type, drug |-> agent.drug,
     availability |-> agent.availability, profit |-> agent.profit,
     is_arrested |-> agent.is_arrested]

(* the stocks and the members as they stand after a stage of step() *)
Snapshot(ctx, stage) ==
    [ctx EXCEPT !.s.log.stages =
        Append(@, [stage |-> stage,
                   members |-> [k \in Indices(ctx.s.agents) |->
                                   Holding(ctx.s.agents[k])],
                   stock_drug |-> ctx.s.gs.stock_drug,
                   stock_drug_traffickers |-> ctx.s.gs.stock_drug_traffickers,
                   stock_drug_packagers |-> ctx.s.gs.stock_drug_packagers,
                   stock_drug_retailers |-> ctx.s.gs.stock_drug_retailers])]

(* step(): the statistics, the record and the viability check that follow
   _update_parameters; a call left by an exception does none of them *)
StepFinish(c8, network_stats, counted) ==
    IF c8.raised THEN [ctx |-> c8, result |-> "raised"]
    ELSE IF ~check_organization_viability(counted)
    THEN [ctx |-> [c8 EXCEPT
                     !.s = [counted EXCEPT
                              !.data = record(@, counted.tick, counted.gs,
                                              network_stats),
                              !.running = FALSE]],
          result |-> "False"]
    ELSE [ctx |-> [c8 EXCEPT
                     !.s = [counted EXCEPT
                              !.data = record(@, counted.tick, counted.gs,
                                              network_stats)]],
          result |-> "True"]

(* step(): the monthly update *)
StepUpdate(c7, tick) ==
    IF c7.raised THEN c7
    ELSE IF tick % MONTH = 0 /\ tick > 0 THEN update_parameters(c7, tick)
    ELSE c7

(* expenses that are accounted for every day *)
ExpensesDaily(c6, tick) ==
    IF c6.raised THEN c6
    ELSE StepUpdate(account_for_expenses(c6), tick)

(* step(): the weekly expenses *)
StepExpenses(c6, tick) ==
    IF c6.raised THEN c6
    ELSE StepUpdate(IF tick % WEEK = 0 THEN account_for_expenses(c6) ELSE c6,
                    tick)

(* step(): the major disruption and the acquisition gate *)
StepDisruption(c4, tick) ==
    IF c4.raised THEN c4
    ELSE StepExpenses(
             apply_acquisition_disruption(
                 IF tick = MAJOR_DISRUPTION_TICK
                 THEN Snapshot(perform_major_arrest(c4, tick,
                                                    c4.s.arrest_scenario),
                               "major")
                 ELSE c4,
                 tick),
             tick)

(* minor arrests that take the day before for the day *)
EnforceEarly(c3, tick) ==
    IF c3.raised THEN c3
    ELSE StepDisruption(Snapshot(perform_minor_arrests(c3, tick + 1), "minor"),
                        tick)

(* step(): the minor arrests *)
StepEnforcement(c3, tick) ==
    IF c3.raised THEN c3
    ELSE StepDisruption(Snapshot(perform_minor_arrests(c3, tick), "minor"), tick)

(* step(): retail sale *)
StepSale(c2, tick) ==
    IF c2.raised THEN c2
    ELSE StepEnforcement(Snapshot(sell_drug(c2, tick), "sell"), tick)

(* step(): packaging and transfers *)
StepPackaging(c1, tick) ==
    IF c1.raised THEN c1
    ELSE StepSale(Snapshot(package_drug(c1, tick), "package"), tick)

(* step(): the clock, the daily aggregates and the acquisition *)
StepAcquisition(ctx, tick) ==
    StepPackaging(
        Snapshot(acquire_drug([ctx EXCEPT !.s.tick = tick,
                                          !.s.gs.tick = tick,
                                          !.s.gs.revenues = 0,
                                          !.s.gs.expenses = 0,
                                          !.s.gs.weekly_profit_now = 0,
                                          !.s.log = EmptyLog,
                                          !.raised = FALSE],
                              tick),
                 "acquire"),
        tick)

(* step() up to and including _update_parameters; an exception raised by a
   call ends the sequence *)
StepStages(ctx) == StepAcquisition(ctx, ctx.s.tick + 1)

(* step(): statistics and member counts of the state the stages left *)
StepCollect(c8) ==
    StepFinish(c8, compute_all_statistics(c8.s), update_agent_counts(c8.s))

(* MADTORSimulation.step: result is "True", "False", or "raised" when the
   call was left by an exception *)
step(ctx) == StepCollect(StepStages(ctx))

(* the second half of a split run of the loop of run() *)
RECURSIVE RunLoop(_, _, _)
RunRest(first, max_ticks, n) ==
    IF first.raised THEN first ELSE RunLoop(first, max_ticks, n)

(* at most n iterations of the loop of run():
   while self.tick < max_ticks and self.running: if not self.step(): break
   (a step that returns False has set running to False; a step that raises
   leaves the loop and the call) *)
RunLoop(ctx, max_ticks, n) ==
    IF n = 0 \/ ctx.raised \/ ~(ctx.s.tick < max_ticks /\ ctx.s.running) THEN ctx
    ELSE IF n = 1 THEN step(ctx).ctx
    ELSE RunRest(RunLoop(ctx, max_ticks, n \div 2), max_ticks, n - n \div 2)

(* what run() hands back: "returned" or "raised" *)
RunResult(done) ==
    [ctx |-> done, result |-> IF done.raised THEN "raised" ELSE "returned"]

(* MADTORSimulation.run: the loop runs at most max_ticks times *)
run(ctx, max_ticks) ==
    RunResult(RunLoop([ctx EXCEPT !.raised = FALSE], max_ticks, max_ticks))

(* MADTORSimulation.get_results *)
get_results(sim) ==
    [arrest_scenario |-> sim.arrest_scenario,
     disruption_mode |-> sim.disruption_mode,
     efficiency_vs_security |-> sim.efficiency_vs_security,
     total_ticks |-> sim.tick,
     final_running |-> sim.running,
     final_cash_box |-> sim.gs.cash_box,
     data |-> sim.data,
     seed |-> sim.seed]


-----------------------------------------------------------------------------
(* The process: construction and calls on the instances *)

RunHorizons == {ShortRun, MaxTick}

(* the parameters the two-instance specification constructs with *)
PairEta == {5}
PairScenarios == {0, 100}
PairModes == {"scenario1"}

(* the record of the last call: the operation, the instance, how the call
   ended, the instance before the call, the argument of run(), and what
   get_results() returned *)
Call(op, inst, result, pre, max_ticks, results) ==
    [op |-> op, inst |-> inst, result |-> result, pre |-> pre,
     max_ticks |-> max_ticks, results |-> results]

(* interpreter start: `random` is seeded from the operating system *)
Init ==
    /\ randState \in {RandSeed(NumSeeds + e) : e \in 0 .. 1}
    /\ idCounter = 0
    /\ sims = [i \in Instances |-> NoSim]
    /\ solo = [i \in Instances |-> NoSim]
    /\ soloRand = [i \in Instances |-> 0]
    /\ foreign = [i \in Instances |-> FALSE]
    /\ owner = "nobody"
    /\ last = Call("start", "A", "returned", NoSim, None, NoSim)

(* the state after a call on instance i: done is what the call left of the
   instance, the generator and the id counter, alone what it left of the twin
   that lives in a process of its own, tainted which instances have by now
   drawn from a stream that another instance had used in between *)
Called(i, done, alone, tainted, call) ==
    /\ sims' = [sims EXCEPT ![i] = done.s]
    /\ randState' = done.r
    /\ idCounter' = done.c
    /\ solo' = [solo EXCEPT ![i] = alone.s]
    /\ soloRand' = [soloRand EXCEPT ![i] = alone.r]
    /\ foreign' = tainted
    /\ owner' = i
    /\ last' = call

(* the twin of a new instance is built with the seed the instance got *)
Constructed(i, arrest_scenario, disruption_mode, eta, made) ==
    Called(i, made,
           MADTORSimulation(arrest_scenario, disruption_mode, eta, made.s.seed,
                            0, 0),
           [foreign EXCEPT ![i] = FALSE],
           Call("construct", i, "returned", NoSim, None, NoSim))

(* sim = MADTORSimulation(arrest_scenario, disruption_mode, eta, seed) *)
Construct(i, arrest_scenario, disruption_mode, eta, seed) ==
    /\ ~sims[i].exists
    /\ Constructed(i, arrest_scenario, disruption_mode, eta,
                   MADTORSimulation(arrest_scenario, disruption_mode, eta, seed,
                                    randState, idCounter))

(* the state after step() or run() gave res on instance i *)
Returned(op, i, max_ticks, res, alone) ==
    Called(i, res.ctx, alone.ctx, [foreign EXCEPT ![i] = @ \/ owner # i],
           Call(op, i, res.result, sims[i], max_ticks, NoSim))

(* sim.step(), whatever sim.running says: step() does not look at it *)
Step(i, horizon) ==
    /\ sims[i].exists
    /\ sims[i].tick < horizon
    /\ Returned("step", i, None,
                step([s |-> sims[i], r |-> randState, c |-> idCounter,
                      raised |-> FALSE]),
                step([s |-> solo[i], r |-> soloRand[i], c |-> 0,
                      raised |-> FALSE]))

(* sim.run(max_ticks), called on a fresh instance or on one that stopped *)
Run(i, max_ticks) ==
    /\ sims[i].exists
    /\ sims[i].tick = 0 \/ ~sims[i].running
    /\ Returned("run", i, max_ticks,
                run([s |-> sims[i], r |-> randState, c |-> idCounter,
                     raised |-> FALSE], max_ticks),
                run([s |-> solo[i], r |-> soloRand[i], c |-> 0,
                     raised |-> FALSE], max_ticks))

(* sim.get_results() *)
GetResults(i) ==
    /\ sims[i].exists
    /\ last.op # "get_results"
    /\ last' = Call("get_results", i, "returned", sims[i], None,
                     get_results(sims[i]))
    /\ UNCHANGED <<randState, idCounter, sims, solo, soloRand, foreign, owner>>

(* one instance, every parameter combination, stepped up to MaxTick *)
Next ==
    \/ \E arrest_scenario \in ArrestScenarios, disruption_mode \in DISRUPTION_MODES,
          eta \in EtaValues, seed \in SeedValues \cup {None} :
          Construct("A", arrest_scenario, disruption_mode, eta, seed)
    \/ Step("A", MaxTick)
    \/ \E max_ticks \in RunHorizons : Run("A", max_ticks)
    \/ GetResults("A")

Spec == Init /\ [][Next]_vars

(* two instances in one process, stepped in any interleaving *)
NextPair ==
    \/ \E i \in Instances, arrest_scenario \in PairScenarios,
          disruption_mode \in PairModes, eta \in PairEta,
          seed \in SeedValues \cup {None} :
          Construct(i, arrest_scenario, disruption_mode, eta, seed)
    \/ \E i \in Instances : Step(i, PairTicks)
    \/ \E i \in Instances : Run(i, PairTicks)
    \/ \E i \in Instances : GetResults(i)

SpecPair == Init /\ [][NextPair]_vars

(* the seed files the seed-file specification finds in madtor/data *)
Node(node_id, role_category2) ==
    [node_id |-> node_id, role_category2 |-> role_category2]

Edge(source, target, familiarity) ==
    [source |-> source, target |-> target, familiarity |-> familiarity]

SeedRosters ==
    {<<Node("N1", "trafficker"), Node("N2", "packager"), Node("N3", "retailer")>>,
     <<Node("N1", "trafficker"), Node("N2", "refining"), Node("N3", "n/a"),
       Node("N4", "retailer")>>,
     <<Node("N2", "packager"), Node("N3", "retailer")>>}

SeedEdgeLists ==
    {<< >>,
     <<Edge("N1", "N2", 3)>>,
     <<Edge("N2", "N3", 2), Edge("N2", "N3", 1)>>,
     <<Edge("N2", "N9", 1)>>,
     <<Edge("N9", "N3", 1), Edge("N2", "N3", 4)>>}

(* the state after the seeded constructor was called for instance i *)
SeededConstructed(i, nodes_data, links_data, made, alone) ==
    Called(i, made, alone, [foreign EXCEPT ![i] = FALSE],
           Call("construct_seeded", i,
                IF made.raised THEN "raised" ELSE "returned",
                [exists |-> FALSE, nodes_data |-> nodes_data,
                 links_data |-> links_data],
                None, NoSim))

(* the twin of a seeded instance is built from the same files with the seed
   the instance got *)
SeededTwin(i, arrest_scenario, disruption_mode, eta, nodes_data, links_data, made) ==
    SeededConstructed(i, nodes_data, links_data, made,
                      MADTORSimulationSeeded(arrest_scenario, disruption_mode,
                                             eta, made.seed, nodes_data,
                                             links_data, 0, 0))

(* sim = MADTORSimulation(arrest_scenario, disruption_mode, eta, seed) in a
   working directory that holds both seed files *)
ConstructSeeded(i, arrest_scenario, disruption_mode, eta, seed, nodes_data, links_data) ==
    /\ ~sims[i].exists
    /\ idCounter < MaxIds
    /\ SeededTwin(i, arrest_scenario, disruption_mode, eta, nodes_data,
                  links_data,
                  MADTORSimulationSeeded(arrest_scenario, disruption_mode, eta,
                                         seed, nodes_data, links_data,
                                         randState, idCounter))

(* one instance built from seed files and stepped to SeedTicks *)
NextSeed ==
    \/ \E arrest_scenario \in PairScenarios, disruption_mode \in PairModes,
          eta \in PairEta, seed \in SeedValues \cup {None},
          nodes_data \in SeedRosters, links_data \in SeedEdgeLists :
          ConstructSeeded("A", arrest_scenario, disruption_mode, eta, seed,
                          nodes_data, links_data)
    \/ Step("A", SeedTicks)
    \/ GetResults("A")

SpecSeed == Init /\ [][NextSeed]_vars


(* the parameters the network specification constructs with: a minor arrest
   that is certain on its day, a major arrest of half the organisation *)
NetScenarios == {50}
NetEta == {10}
NetSeeds == {0}

(* the members add_link is called with: the first packager on one side, the
   first retailer and an id that no member has on the other *)
NetSources == {INITIAL_TRAFFICKERS}
NetTargets == {INITIAL_TRAFFICKERS + INITIAL_PACKAGERS,
               INITIAL_TRAFFICKERS + INITIAL_PACKAGERS + INITIAL_RETAILERS}

(* the instance after sim.network.add_link(agent_id_1, agent_id_2, link_type) *)
Linked(sim, net) == [sim EXCEPT !.agents = net.agents, !.links = net.links]

(* sim.network.add_link(agent_id_1, agent_id_2, link_type): the call returns
   False when one of the ids is not a member's and True otherwise; it draws no
   random number *)
AddLink(i, agent_id_1, agent_id_2, link_type) ==
    /\ sims[i].exists
    /\ Len(sims[i].links) < INITIAL_PACKAGERS + INITIAL_RETAILERS + MaxAddLinks
    /\ sims' = [sims EXCEPT ![i] =
                   Linked(@, add_link([agents |-> @.agents, links |-> @.links],
                                      agent_id_1, agent_id_2, link_type))]
    /\ solo' = [solo EXCEPT ![i] =
                   Linked(@, add_link([agents |-> @.agents, links |-> @.links],
                                      agent_id_1, agent_id_2, link_type))]
    /\ last' = Call("add_link", i,
                    IF {agent_id_1, agent_id_2} \subseteq AgentIds(sims[i].agents)
                    THEN "True" ELSE "False",
                    [sim |-> sims[i], agent_id_1 |-> agent_id_1,
                     agent_id_2 |-> agent_id_2],
                    None, NoSim)
    /\ UNCHANGED <<randState, idCounter, soloRand, foreign, owner>>

(* what a call of a LawEnforcement method hands back *)
Enforced(ctx) == [ctx |-> ctx, result |-> "returned"]

(* sim.law_enforcement.perform_minor_arrests(tick) while a member is active *)
MinorArrests(i, tick) ==
    /\ sims[i].exists
    /\ get_active_agents(sims[i].agents) # << >>
    /\ Returned("minor_arrests", i, None,
                Enforced(perform_minor_arrests(
                             [s |-> sims[i], r |-> randState, c |-> idCounter,
                              raised |-> FALSE], tick)),
                Enforced(perform_minor_arrests(
                             [s |-> solo[i], r |-> soloRand[i], c |-> 0,
                              raised |-> FALSE], tick)))

(* sim.law_enforcement.perform_major_arrest(sim.tick, sim.arrest_scenario)
   while two members are active *)
MajorArrest(i) ==
    /\ sims[i].exists
    /\ Len(get_active_agents(sims[i].agents)) >= 2
    /\ Returned("major_arrest", i, None,
                Enforced(perform_major_arrest(
                             [s |-> sims[i], r |-> randState, c |-> idCounter,
                              raised |-> FALSE],
                             sims[i].tick, sims[i].arrest_scenario)),
                Enforced(perform_major_arrest(
                             [s |-> solo[i], r |-> soloRand[i], c |-> 0,
                              raised |-> FALSE],
                             solo[i].tick, solo[i].arrest_scenario)))

(* one instance whose network and law enforcement are also called directly *)
NextNet ==
    \/ \E arrest_scenario \in NetScenarios, disruption_mode \in PairModes,
          eta \in NetEta, seed \in NetSeeds :
          Construct("A", arrest_scenario, disruption_mode, eta, seed)
    \/ Step("A", NetTicks)
    \/ \E agent_id_1 \in NetSources, agent_id_2 \in NetTargets :
          AddLink("A", agent_id_1, agent_id_2, "neutral")
    \/ MinorArrests("A", MINOR_ARREST_DAY)
    \/ MajorArrest("A")

SpecNet == Init /\ [][NextNet]_vars


(* the disruption modes the mode specification constructs with: the three of
   config.DISRUPTION_MODES and one that is not among them *)
ModeSelectors == DISRUPTION_MODES \cup {"scenario4"}

(* one instance constructed with any selector and run to ShortRun *)
NextModes ==
    \/ \E disruption_mode \in ModeSelectors, seed \in SeedValues :
          Construct("A", 50, disruption_mode, 5, seed)
    \/ Step("A", ShortRun)
    \/ Run("A", ShortRun)
    \/ GetResults("A")

SpecModes == Init /\ [][NextModes]_vars


(* the ticks handed to acquire_drug when it is called directly: three
   acquisition ticks, the first two inside the window after a disruption at
   tick 0 (first and second half) and the third past its end *)
AcquireTicks == {MONTH, 2 * MONTH, 3 * MONTH}

(* the arrest percentages the direct-call specification constructs with *)
GateScenarios == {0, 50, 100}

(* sim.activities.acquire_drug(tick) *)
Acquire(i, tick) ==
    /\ sims[i].exists
    /\ last.op # "acquire_drug"
    /\ Called(i,
              acquire_drug([s |-> sims[i], r |-> randState, c |-> idCounter,
                            raised |-> FALSE], tick),
              acquire_drug([s |-> solo[i], r |-> soloRand[i], c |-> 0,
                            raised |-> FALSE], tick),
              [foreign EXCEPT ![i] = @ \/ owner # i],
              Call("acquire_drug", i, "returned",
                   [sim |-> sims[i], tick |-> tick, r |-> randState],
                   None, NoSim))

(* the values given to target_of_disruption: the three roles *)
DisruptionTargets == {"traffickers", "packagers", "retailers"}

(* sim.global_state["target_of_disruption"] = target, before the disruption *)
SetTarget(i, target) ==
    /\ sims[i].exists
    /\ sims[i].gs.target_of_disruption = "turtles"
    /\ sims[i].gs.ticks_disruption = None
    /\ sims' = [sims EXCEPT ![i].gs.target_of_disruption = target]
    /\ solo' = [solo EXCEPT ![i].gs.target_of_disruption = target]
    /\ last' = Call("set_target", i, "returned", sims[i], None, NoSim)
    /\ UNCHANGED <<randState, idCounter, soloRand, foreign, owner>>

(* sim.law_enforcement.perform_major_arrest(sim.tick, sim.arrest_scenario),
   called once *)
Disrupt(i) ==
    /\ sims[i].exists
    /\ sims[i].gs.ticks_disruption = None
    /\ MajorArrest(i)

(* the disruption modes the direct-call specification constructs with *)
GateModes == {"scenario1", "scenario2"}

(* one instance whose acquisition stage is called directly, before and after
   a major disruption of the whole organisation or of one role *)
NextGate ==
    \/ \E arrest_scenario \in GateScenarios, disruption_mode \in GateModes,
          eta \in EtaValues, seed \in SeedValues :
          Construct("A", arrest_scenario, disruption_mode, eta, seed)
    \/ \E tick \in AcquireTicks : Acquire("A", tick)
    \/ \E target \in DisruptionTargets : SetTarget("A", target)
    \/ Disrupt("A")

SpecGate == Init /\ [][NextGate]_vars


(* the retailer profit maxima the cap specification sets, in doses' worth of
   the retailer's share *)
CapDoses == {2, 3}

(* the ticks the cap specification steps to *)
CapTicks == 4

(* sim.global_state["profit_of_retailers_max"] = the retailer's share of
   doses sales, before the first step *)
SetProfitCap(i, doses) ==
    /\ sims[i].exists
    /\ sims[i].tick = 0
    /\ sims[i].gs.profit_of_retailers_max = PROFIT_OF_RETAILERS_MAX
    /\ sims' = [sims EXCEPT ![i].gs.profit_of_retailers_max =
                   doses * ((sims[i].gs.price_per_dose
                               * sims[i].gs.retailers_share_of_profits) \div 100)]
    /\ solo' = [solo EXCEPT ![i].gs.profit_of_retailers_max =
                   doses * ((solo[i].gs.price_per_dose
                               * solo[i].gs.retailers_share_of_profits) \div 100)]
    /\ last' = Call("set_profit_cap", i, "returned", sims[i], None, NoSim)
    /\ UNCHANGED <<randState, idCounter, soloRand, foreign, owner>>

(* one instance stepped with the configured retailer profit maximum or with
   a smaller one *)
NextCap ==
    \/ \E eta \in EtaValues, seed \in SeedValues :
          Construct("A", 0, "scenario1", eta, seed)
    \/ \E doses \in CapDoses : SetProfitCap("A", doses)
    \/ Step("A", CapTicks)

SpecCap == Init /\ [][NextCap]_vars


(***************************************************************************)
(* Properties                                                              *)
(***************************************************************************)

(* the three tier stocks of a global state add up to the total stock *)
StocksAddUp(g) ==
    g.stock_drug =
        g.stock_drug_traffickers + g.stock_drug_packagers + g.stock_drug_retailers

(* the last call was step() or run() and its last tick ran to its end *)
StepCompleted ==
    /\ last.op \in {"step", "run"}
    /\ last.result # "raised"
    /\ sims[last.inst].tick > last.pre.tick

(* C1: after every completed step(), and after each of the acquisition,   *)
(* packaging/transfer, retail-sale and arrest stages inside it, stock_drug *)
(* equals stock_drug_traffickers + stock_drug_packagers +                  *)
(* stock_drug_retailers.                                                   *)
C1_StockIdentity ==
    StepCompleted =>
        LET sim == sims[last.inst]
        IN /\ StocksAddUp(sim.gs)
           /\ \A k \in 1 .. Len(sim.log.stages) : StocksAddUp(sim.log.stages[k])


(* the ids of the arrested members of a simulation *)
ArrestedIds(sim) ==
    {sim.agents[k].agent_id : k \in {j \in Indices(sim.agents) : sim.agents[j].is_arrested}}

(* no active-member query of the simulation returns an arrested member *)
QueriesSkipArrested(sim) ==
    /\ \A k \in 1 .. Len(get_active_agents(sim.agents)) :
           ~sim.agents[get_active_agents(sim.agents)[k]].is_arrested
    /\ \A agent_type \in {"trafficker", "packager", "retailer"} :
           LET found == get_active_agents_by_type(sim.agents, agent_type)
           IN \A k \in 1 .. Len(found) : ~sim.agents[found[k]].is_arrested

(* nobody the last tick chose as source, recipient, seller or arrest target
   was arrested when chosen *)
ChosenWereActive(sim) ==
    /\ \A k \in 1 .. Len(sim.log.transfers) :
           ~sim.log.transfers[k].src_arrested /\ ~sim.log.transfers[k].dst_arrested
    /\ \A e \in sim.log.sellers : ~e.was_arrested
    /\ \A e \in sim.log.arrests : ~e.was_arrested

(* C2: arrest is monotonic: a member whose is_arrested flag is true keeps   *)
(* it under every call, is never returned by get_active_agents() or         *)
(* get_active_agents_by_type(), and is never again chosen as transfer       *)
(* source or recipient, as seller, or as arrest target.                     *)
C2_ArrestIsForever ==
    [][\A i \in Instances :
          sims[i].exists =>
              /\ ArrestedIds(sims[i]) \subseteq ArrestedIds(sims'[i])
              /\ QueriesSkipArrested(sims'[i])
              /\ ChosenWereActive(sims'[i])]_vars

(* a tick with transfers, sales and an arrest, taken when somebody had been
   arrested before *)
C2_Witness ==
    /\ last.op = "step"
    /\ ArrestedIds(last.pre) # {}
    /\ sims[last.inst].log.transfers # <<>>
    /\ sims[last.inst].log.sellers # {}
    /\ sims[last.inst].log.arrests # {}


(* C3: for every single transfer (trafficker to packager, and each package *)
(* of packager to retailer) the transferred amount is at most               *)
(* min(package size, source inventory before the transfer), the             *)
(* destination's inventory increases by exactly that amount and the         *)
(* source's inventory decreases by exactly that amount.                     *)
C3_TransferAmounts ==
    \A i \in Instances :
        sims[i].exists =>
            \A k \in 1 .. Len(sims[i].log.transfers) :
                LET e == sims[i].log.transfers[k]
                IN /\ e.amount <= Min(e.package, e.src_before)
                   /\ e.dst_after = e.dst_before + e.amount
                   /\ e.src_after = e.src_before - e.amount

(* a tick in which one source handed over a whole package and another the
   rest of what it held, less than a package *)
C3_Witness ==
    /\ last.op = "step"
    /\ \E k \in 1 .. Len(sims[last.inst].log.transfers) :
           LET e == sims[last.inst].log.transfers[k]
           IN e.amount = e.package /\ e.src_before > e.package
    /\ \E k \in 1 .. Len(sims[last.inst].log.transfers) :
           LET e == sims[last.inst].log.transfers[k]
           IN e.amount > 0 /\ e.amount = e.src_before /\ e.src_before < e.package


(* some role has no active member, or the cash box is negative *)
DeathCondition(sim) ==
    \/ \E agent_type \in {"trafficker", "packager", "retailer"} :
           \A k \in Indices(sim.agents) :
               sim.agents[k].agent_type = agent_type => sim.agents[k].is_arrested
    \/ sim.gs.cash_box < 0

(* C4: organisational death is detected exactly when it should be: step()  *)
(* returns False (and sets running to False) if and only if, at the end of  *)
(* that tick, some role has zero active members or cash_box is negative.    *)
C4_DeathDetectedExactly ==
    last.op = "step" =>
        ((last.result = "False" /\ ~sims[last.inst].running)
            <=> DeathCondition(sims[last.inst]))


(* C5: no resurrection: once organisational death has been detected        *)
(* (step() returned False, running is False) no later call of step() or     *)
(* run() increases tick, appends a record row or returns a continue         *)
(* signal, and running never becomes true again.                            *)
C5_NoResurrection ==
    [][\A i \in Instances :
          (sims[i].exists /\ ~sims[i].running) =>
              /\ sims'[i].tick = sims[i].tick
              /\ sims'[i].data = sims[i].data
              /\ ~sims'[i].running
              /\ (last'.inst = i /\ last'.op = "step") => last'.result # "True"]_vars


(* C6: run(max_ticks = N) on a fresh simulation always terminates and      *)
(* returns; on return tick <= N, and tick = N with running true unless      *)
(* organisational death was detected at an earlier tick, in which case      *)
(* running is false and tick is the tick of death.                          *)
C6_RunReturns ==
    (last.op = "run" /\ last.pre.tick = 0) =>
        LET sim == sims[last.inst]
        IN /\ last.result = "returned"
           /\ sim.tick <= last.max_ticks
           /\ sim.running => sim.tick = last.max_ticks
           /\ ~sim.running =>
                  /\ DeathCondition(sim)
                  /\ Len(sim.data.tick) = sim.tick


(* the stocks recorded after the major disruption of the last tick *)
AfterMajor(sim) ==
    sim.log.stages[CHOOSE k \in 1 .. Len(sim.log.stages) :
                       sim.log.stages[k].stage = "major"]

(* the last tick ran the major disruption with a 100% arrest target *)
FullDisruptionRan ==
    /\ last.op = "step"
    /\ sims[last.inst].log.major
    /\ last.pre.arrest_scenario = 100

(* every member of the scope is arrested and holds nothing, the tier stocks
   hold nothing of theirs, and an emptied role makes step() return False *)
ScopeWipedOut ==
    LET sim == sims[last.inst]
    IN /\ sim.log.scope \subseteq ArrestedIds(sim)
       /\ \A k \in Indices(sim.agents) :
              sim.agents[k].agent_id \in sim.log.scope => sim.agents[k].drug = 0
       /\ AfterMajor(sim).stock_drug_traffickers = 0
       /\ AfterMajor(sim).stock_drug_packagers = 0
       /\ AfterMajor(sim).stock_drug_retailers = 0
       /\ AfterMajor(sim).stock_drug = 0
       /\ last.result = "False" /\ ~sim.running

(* C7 as stated: when the major disruption runs with a 100% arrest target, *)
(* immediately afterwards every member that was active in the targeted      *)
(* scope is arrested, each of them holds zero inventory, the tier stocks    *)
(* no longer contain their inventory, and, a role being empty, step()       *)
(* returns False within that same tick.                                     *)
C7_FullDisruptionArrestsAll ==
    FullDisruptionRan => ScopeWipedOut

(* C7, amended: the same when the arrest target is taken as it is          *)
(* (disruption mode scenario1) or is raised by the random modulation of the *)
(* other modes (efficiency_vs_security above 0.6); for                      *)
(* efficiency_vs_security of 0.6 or less the other modes arrest fewer.      *)
C7_FullDisruptionUnmodulated ==
    (/\ FullDisruptionRan
     /\ \/ last.pre.disruption_mode = "scenario1"
        \/ last.pre.efficiency_vs_security > 6)
    => ScopeWipedOut

(* a living organisation of a randomised mode met by the 100% disruption *)
C7_Witness ==
    /\ FullDisruptionRan
    /\ last.pre.running
    /\ last.pre.disruption_mode = "scenario2"
    /\ last.pre.efficiency_vs_security = 10
    /\ Cardinality(sims[last.inst].log.scope)
           = INITIAL_TRAFFICKERS + INITIAL_PACKAGERS + INITIAL_RETAILERS
    /\ \E k \in Indices(last.pre.agents) : last.pre.agents[k].drug > 0
    /\ last.result = "False"


(* the columns of the tick-indexed record *)
Columns == DOMAIN EmptyData

(* C8: after k calls of step() on a fresh simulation the tick-indexed      *)
(* record holds exactly k rows: every column of DataCollector.data has      *)
(* length k, the tick column is 1, 2, ..., k (each step() increases tick by *)
(* exactly 1), and a row is appended also for the tick on which death is    *)
(* detected.                                                                *)
C8_OneRowPerStep ==
    \A i \in Instances :
        sims[i].exists =>
            /\ \A col \in Columns : Len(sims[i].data[col]) = sims[i].tick
            /\ \A k \in 1 .. Len(sims[i].data.tick) : sims[i].data.tick[k] = k
            /\ (last.inst = i /\ last.op = "step") =>
                   sims[i].tick = last.pre.tick + 1


(* the terminal summary of a simulation *)
Summary(sim) == get_results(sim)

(* C9: instances are independent.  The per-tick record and the terminal
   summary of an instance are those of the same simulation living alone in a
   process of its own, whatever was constructed or stepped in its process
   between its own calls: nothing is shared, neither the random stream nor
   the member-id counter. *)
C9_InstancesIndependent ==
    \A i \in Instances :
        sims[i].exists =>
            /\ sims[i].data = solo[i].data
            /\ Summary(sims[i]) = Summary(solo[i])

(* instance i has only ever drawn from a stream that nobody else had used
   since i last had it *)
Undisturbed(i) == sims[i].exists /\ ~foreign[i]

(* two simulations built with the same seed and construction parameters *)
SameConstruction(a, b) ==
    /\ a.seed = b.seed
    /\ a.arrest_scenario = b.arrest_scenario
    /\ a.disruption_mode = b.disruption_mode
    /\ a.efficiency_vs_security = b.efficiency_vs_security

(* C10: determinism.  Two simulations constructed with the same seed and the
   same construction parameters and run to the same tick, with nothing else
   drawing random numbers while either was running, have identical per-tick
   records and identical terminal summaries; and get_results() reports the
   seed that was used: a simulation constructed alone with the reported seed
   reproduces the record and the summary. *)
C10_Determinism ==
    /\ \A i, j \in Instances :
           (/\ Undisturbed(i) /\ Undisturbed(j)
            /\ SameConstruction(sims[i], sims[j])
            /\ sims[i].tick = sims[j].tick)
           => /\ sims[i].data = sims[j].data
              /\ Summary(sims[i]) = Summary(sims[j])
    /\ \A i \in Instances :
           Undisturbed(i) =>
               /\ solo[i].seed = Summary(sims[i]).seed
               /\ sims[i].data = solo[i].data
               /\ Summary(sims[i]) = Summary(solo[i])
    /\ (last.op = "get_results" /\ Undisturbed(last.inst))
           => last.results = Summary(solo[last.inst])

(* both instances were built with one seed, one after the other, each was
   stepped to the horizon undisturbed, and the summary of one was taken *)
C10_Witness ==
    /\ Undisturbed("A") /\ Undisturbed("B")
    /\ SameConstruction(sims["A"], sims["B"])
    /\ sims["A"].tick = PairTicks /\ sims["B"].tick = PairTicks
    /\ Len(sims["A"].data.tick) = PairTicks
    /\ Len(sims["B"].data.tick) = PairTicks
    /\ last.op = "get_results"
    /\ last.results.total_ticks = PairTicks


(* the members of sim that were not yet members of old *)
NewMembers(sim, old) ==
    {k \in Indices(sim.agents) : sim.agents[k].agent_id \notin AgentIds(old.agents)}

(* C11: recruitment works.  When the recruitment conditions of a role are met
   at a month boundary, the call completes normally and a new member of that
   role is in the Network, is returned by the active-member view of its role
   and has a relationship with some other member. *)
C11_RecruitmentWorks ==
    (/\ last.op \in {"step", "run"}
     /\ sims[last.inst].log.recruit # "none")
    => LET sim == sims[last.inst]
           active == get_active_agents_by_type(sim.agents, sim.log.recruit)
       IN /\ last.result # "raised"
          /\ \E k \in NewMembers(sim, last.pre) :
                /\ sim.agents[k].agent_type = sim.log.recruit
                /\ \E n \in 1 .. Len(active) : active[n] = k
                /\ sim.agents[k].connections # {}


(* every edge of the seed names two members of the roster *)
EndpointsExist(nodes_data, links_data) ==
    \A k \in 1 .. Len(links_data) :
        \E m, n \in 1 .. Len(nodes_data) :
            /\ nodes_data[m].node_id = links_data[k].source
            /\ nodes_data[n].node_id = links_data[k].target

(* the member built for a node id: members are created in roster order *)
MemberOf(sim, nodes_data, node_id) ==
    sim.agents[CHOOSE m \in 1 .. Len(nodes_data) : nodes_data[m].node_id = node_id]

(* C12: seed round trip.  Setting up from a roster of N members and M edges
   whose endpoints are all in the roster completes, and yields exactly N
   active members and exactly M relationships, each with the familiarity
   given in the seed as seen from both ends. *)
C12_SeedRoundTrip ==
    (/\ last.op = "construct_seeded"
     /\ EndpointsExist(last.pre.nodes_data, last.pre.links_data))
    => /\ last.result = "returned"
       /\ LET sim == sims[last.inst]
              nodes_data == last.pre.nodes_data
              links_data == last.pre.links_data
          IN /\ Len(get_active_agents(sim.agents)) = Len(nodes_data)
             /\ Len(sim.links) = Len(links_data)
             /\ \A k \in 1 .. Len(links_data) :
                   LET a == MemberOf(sim, nodes_data, links_data[k].source)
                       b == MemberOf(sim, nodes_data, links_data[k].target)
                   IN /\ get_connection_familiarity(a, b.agent_id)
                            = links_data[k].familiarity
                      /\ get_connection_familiarity(b, a.agent_id)
                            = links_data[k].familiarity


(* the number of members of a role, arrested ones included *)
RoleCount(sim, agent_type) ==
    Cardinality({k \in Indices(sim.agents) : sim.agents[k].agent_type = agent_type})

(* every member of role lower has a relationship with a member of role upper *)
TierLinked(sim, lower, upper) ==
    \A k \in Indices(sim.agents) :
        sim.agents[k].agent_type = lower =>
            \E m \in Indices(sim.agents) :
                /\ sim.agents[m].agent_type = upper
                /\ sim.agents[m].agent_id \in sim.agents[k].connections
                /\ sim.agents[k].agent_id \in sim.agents[m].connections

(* C13: synthetic setup.  A simulation constructed without seed files has
   tick 0 and exactly INITIAL_TRAFFICKERS + INITIAL_PACKAGERS +
   INITIAL_RETAILERS members, all of them active, with the configured number
   per role; every packager has a relationship with some trafficker and every
   retailer with some packager. *)
C13_SyntheticSetup ==
    last.op = "construct" =>
        LET sim == sims[last.inst]
        IN /\ sim.exists
           /\ sim.tick = 0
           /\ Len(sim.agents)
                 = INITIAL_TRAFFICKERS + INITIAL_PACKAGERS + INITIAL_RETAILERS
           /\ Len(get_active_agents(sim.agents)) = Len(sim.agents)
           /\ RoleCount(sim, "trafficker") = INITIAL_TRAFFICKERS
           /\ RoleCount(sim, "packager") = INITIAL_PACKAGERS
           /\ RoleCount(sim, "retailer") = INITIAL_RETAILERS
           /\ TierLinked(sim, "packager", "trafficker")
           /\ TierLinked(sim, "retailer", "packager")

(* the first simulation of its process was constructed without seed files
   and every packager and retailer was wired *)
C13_Witness ==
    /\ last.op = "construct"
    /\ sims[last.inst].exists
    /\ Len(sims[last.inst].links) = INITIAL_PACKAGERS + INITIAL_RETAILERS
    /\ idCounter = Len(sims[last.inst].agents)


(* the member of sim with the given id *)
Member(sim, agent_id) == sim.agents[IndexOf(sim.agents, agent_id)]

(* a and b are distinct members of sim and each is a partner of the other *)
Related(sim, a, b) ==
    /\ a # b
    /\ {a, b} \subseteq AgentIds(sim.agents)
    /\ b \in Member(sim, a).connections
    /\ a \in Member(sim, b).connections

(* C14: add_link is idempotent on the edge set.  When add_link(a, b, tag) is
   called for two members that are already related, the degree of a and the
   degree of b are what they were, and the familiarity of the pair, seen from
   a and seen from b, is one more than it was. *)
C14_AddLinkIdempotent ==
    (/\ last.op = "add_link"
     /\ Related(last.pre.sim, last.pre.agent_id_1, last.pre.agent_id_2))
    => LET a == last.pre.agent_id_1
           b == last.pre.agent_id_2
           old == last.pre.sim
           sim == sims[last.inst]
       IN /\ get_degree(Member(sim, a)) = get_degree(Member(old, a))
          /\ get_degree(Member(sim, b)) = get_degree(Member(old, b))
          /\ get_connection_familiarity(Member(sim, a), b)
                = get_connection_familiarity(Member(old, a), b) + 1
          /\ get_connection_familiarity(Member(sim, b), a)
                = get_connection_familiarity(Member(old, b), a) + 1

(* add_link has returned True for a pair that was related before the call *)
C14_Witness ==
    /\ last.op = "add_link"
    /\ last.result = "True"
    /\ Related(last.pre.sim, last.pre.agent_id_1, last.pre.agent_id_2)


(* the members of sim that are arrested and were not in old *)
NewlyArrested(sim, old) ==
    {k \in Indices(sim.agents) :
        sim.agents[k].is_arrested /\ ~old.agents[k].is_arrested}

(* C15: arresting deletes no edge.  A minor or a major arrest leaves every
   member's partners, every familiarity and every member's degree as they
   were: an arrested partner still counts toward the degree. *)
C15_ArrestKeepsEdges ==
    last.op \in {"minor_arrests", "major_arrest"}
    => LET sim == sims[last.inst]
           old == last.pre
       IN /\ Len(sim.agents) = Len(old.agents)
          /\ sim.links = old.links
          /\ \A k \in Indices(sim.agents) :
                /\ sim.agents[k].connections = old.agents[k].connections
                /\ sim.agents[k].link_data = old.agents[k].link_data
                /\ get_degree(sim.agents[k]) = get_degree(old.agents[k])

(* a major arrest has taken a member who has a partner, in an organisation
   where a member taken by an earlier minor arrest is still some member's
   partner *)
C15_Witness ==
    /\ last.op = "major_arrest"
    /\ \E k \in NewlyArrested(sims[last.inst], last.pre) :
          \E j \in Indices(sims[last.inst].agents) :
              sims[last.inst].agents[k].agent_id
                  \in sims[last.inst].agents[j].connections
    /\ \E k, j \in Indices(sims[last.inst].agents) :
          /\ sims[last.inst].agents[k].is_arrested
          /\ sims[last.inst].agents[k].arrest_date = MINOR_ARREST_DAY
          /\ sims[last.inst].agents[k].agent_id
                \in sims[last.inst].agents[j].connections


(* a metric is zero *)
IsZero(q) == q.num = 0 /\ q.den > 0

(* a metric lies in [0, 1] *)
InUnit(q) == q.den > 0 /\ 0 <= q.num /\ q.num <= q.den

(* the two centralizations of a network with n active members *)
CentralizationBounded(stats, n) ==
    IF n <= 2
    THEN IsZero(stats.cen_ndegree) /\ IsZero(stats.cen_nbetweenness)
    ELSE InUnit(stats.cen_ndegree) /\ InUnit(stats.cen_nbetweenness)

(* C16: in every reachable network state with n active members the degree
   centralization and the betweenness centralization are 0 when n <= 2 and
   lie in [0, 1] when n > 2. *)
C16_CentralizationBounded ==
    \A i \in Instances :
        sims[i].exists
        => CentralizationBounded(all_statistics(sims[i].agents),
                                 Len(get_active_agents(sims[i].agents)))


(* the ids of the active members *)
ActiveIds(agents) == {agents[k].agent_id : k \in {j \in Indices(agents) : ~agents[j].is_arrested}}

(* the active members reached from seen along relationships whose two ends
   are both active *)
RECURSIVE ActiveReach(_, _)
ActiveReach(agents, seen) ==
    LET next == seen \cup (ActiveIds(agents) \cap
                   UNION {agents[IndexOf(agents, id)].connections : id \in seen})
    IN IF next = seen THEN seen ELSE ActiveReach(agents, next)

(* C17: the components are computed over the active subgraph only.  No
   component holds an arrested member, the largest component is no larger
   than the number of active members, and two active members are in one
   component only if a chain of active members links them. *)
C17_ComponentsOverActive ==
    \A i \in Instances :
        sims[i].exists
        => LET agents == sims[i].agents
               components == ComponentsOf(agents, get_active_agents(agents))
           IN /\ compute_components(agents).max_component
                    <= Len(get_active_agents(agents))
              /\ \A c \in components : c \subseteq ActiveIds(agents)
              /\ \A c \in components : \A a, b \in c \cap ActiveIds(agents) :
                     b \in ActiveReach(agents, {a})

(* every metric of the statistics is zero *)
AllZero(stats) ==
    /\ stats.n_components = 0
    /\ stats.max_component = 0
    /\ \A metric \in {"min_ndegree", "avg_ndegree", "max_ndegree", "cen_ndegree",
                      "min_nbetweenness", "avg_nbetweenness", "max_nbetweenness",
                      "cen_nbetweenness", "average_path_length"} :
           IsZero(stats[metric])

(* C18: whenever fewer than 2 members are active, compute_all_statistics()
   returns every metric as zero, n_components and max_component included. *)
C18_FewMembersAllZero ==
    \A i \in Instances :
        (sims[i].exists /\ Len(get_active_agents(sims[i].agents)) < 2)
        => AllZero(all_statistics(sims[i].agents))


(* the stages the last step() of sim went through *)
StagesOf(sim) == {sim.log.stages[k].stage : k \in 1 .. Len(sim.log.stages)}

(* C19: under scenario3 a major disruption is triggered at each scheduled
   disruption tick, and under the single-event modes at the configured tick
   and at no other.  (Of a step() that got as far as law enforcement.) *)
C19_ScheduledDisruptions ==
    (last.op = "step" /\ "minor" \in StagesOf(sims[last.inst]))
    => LET sim == sims[last.inst]
       IN IF sim.disruption_mode = "scenario3"
          THEN sim.tick \in SCENARIO3_DISRUPTION_TICKS
                  => "major" \in StagesOf(sim)
          ELSE "major" \in StagesOf(sim) <=> sim.tick = MAJOR_DISRUPTION_TICK


(* the number of active members of a role *)
ActiveCount(sim, agent_type) ==
    Len(get_active_agents_by_type(sim.agents, agent_type))

(* C20: membership changes only on designated ticks.  A step() to a tick t
   with t mod 30 not in {0, 15} and t not the tick of the major disruption
   leaves the number of active members of every role as it was; a step() to
   a tick with t mod 30 = 15 arrests at most one member and adds none. *)
C20_MembershipOnDesignatedTicks ==
    last.op = "step"
    => LET sim == sims[last.inst]
           old == last.pre
       IN /\ (sim.tick % MONTH \notin {0, MINOR_ARREST_DAY}
                /\ sim.tick # MAJOR_DISRUPTION_TICK)
             => \A agent_type \in {"trafficker", "packager", "retailer"} :
                    ActiveCount(sim, agent_type) = ActiveCount(old, agent_type)
          /\ (sim.tick % MONTH = MINOR_ARREST_DAY
                /\ sim.tick # MAJOR_DISRUPTION_TICK)
             => /\ Cardinality(NewlyArrested(sim, old)) <= 1
                /\ Len(sim.agents) = Len(old.agents)
                /\ \A k \in Indices(old.agents) :
                       old.agents[k].is_arrested => sim.agents[k].is_arrested

(* a step() to a minor-arrest day has arrested a member *)
C20_Witness ==
    /\ last.op = "step"
    /\ sims[last.inst].tick % MONTH = MINOR_ARREST_DAY
    /\ Cardinality(NewlyArrested(sims[last.inst], last.pre)) = 1


(* C21: cash_box decreases only on settlement ticks.  After a step() to a
   tick t with t mod 7 # 0 and t mod 30 # 0 cash_box is greater than or equal
   to what it was before the step. *)
C21_CashOnlyFallsOnSettlement ==
    (/\ last.op = "step"
     /\ sims[last.inst].tick % WEEK # 0
     /\ sims[last.inst].tick % MONTH # 0)
    => sims[last.inst].gs.cash_box >= last.pre.gs.cash_box

(* a step() to a tick that is no settlement tick has sold doses and raised
   cash_box *)
C21_Witness ==
    /\ last.op = "step"
    /\ sims[last.inst].tick % WEEK # 0
    /\ sims[last.inst].tick % MONTH # 0
    /\ sims[last.inst].gs.cash_box > last.pre.gs.cash_box


(* C22: inventories are never negative.  In every reachable state every
   member's drug and each of stock_drug, stock_drug_traffickers,
   stock_drug_packagers and stock_drug_retailers is at least 0. *)
C22_InventoriesNonNegative ==
    \A i \in Instances :
        sims[i].exists
        => /\ \A k \in Indices(sims[i].agents) : sims[i].agents[k].drug >= 0
           /\ sims[i].gs.stock_drug >= 0
           /\ sims[i].gs.stock_drug_traffickers >= 0
           /\ sims[i].gs.stock_drug_packagers >= 0
           /\ sims[i].gs.stock_drug_retailers >= 0


(* C23: an unrecognized disruption-mode selector is rejected at
   construction.  No instance exists whose disruption_mode is outside
   config.DISRUPTION_MODES, so no tick runs under such a mode. *)
C23_UnknownModeRejected ==
    \A i \in Instances :
        sims[i].exists => sims[i].disruption_mode \in DISRUPTION_MODES


(* the ids the queries are asked about: every member's and one that no
   member has *)
QueriedIds(sim) == AgentIds(sim.agents) \cup {Len(sim.agents) + MaxIds}

(* C24: the graph queries do not fail on absent keys and change nothing.
   get_connection_familiarity is 0 for a member that is no partner,
   get_active_agents_by_type is empty for a role without active members and
   for an unknown role, and an add_link that names an unknown id returns
   False and leaves the members and the links as they were. *)
C24_QueriesOnAbsentKeys ==
    \A i \in Instances :
        sims[i].exists
        => /\ \A k \in Indices(sims[i].agents) :
                 \A id \in QueriedIds(sims[i]) \ sims[i].agents[k].connections :
                     get_connection_familiarity(sims[i].agents[k], id) = 0
           /\ get_active_agents_by_type(sims[i].agents, "courier") = << >>
           /\ \A agent_type \in {"trafficker", "packager", "retailer"} :
                 (\A k \in Indices(sims[i].agents) :
                      sims[i].agents[k].agent_type = agent_type
                      => sims[i].agents[k].is_arrested)
                 => get_active_agents_by_type(sims[i].agents, agent_type) = << >>
           /\ (last.op = "add_link" /\ last.inst = i
                 /\ ~({last.pre.agent_id_1, last.pre.agent_id_2}
                        \subseteq AgentIds(last.pre.sim.agents)))
              => /\ last.result = "False"
                 /\ sims[i].agents = last.pre.sim.agents
                 /\ sims[i].links = last.pre.sim.links

(* add_link has been called with an id that no member has, in an
   organisation where a role has no active member left *)
C24_Witness ==
    /\ last.op = "add_link"
    /\ last.pre.agent_id_2 \notin AgentIds(last.pre.sim.agents)
    /\ \E agent_type \in {"trafficker", "packager", "retailer"} :
          \A k \in Indices(sims[last.inst].agents) :
              sims[last.inst].agents[k].agent_type = agent_type
              => sims[last.inst].agents[k].is_arrested


(* C25: acquisition spending is fully charged.  Over the acquisition stage
   cash_box falls by the sum of the purchase costs of the successful
   traffickers, which is what the stage adds to expenses.  (Seen on a step()
   to an acquisition tick that is no weekly settlement: expenses then holds
   the purchase costs alone, and the only other change of cash_box is the
   day's revenues.) *)
C25_AcquisitionFullyCharged ==
    (/\ last.op = "step"
     /\ sims[last.inst].tick % MONTH = 0
     /\ sims[last.inst].tick % WEEK # 0)
    => last.pre.gs.cash_box - (sims[last.inst].gs.cash_box
                                 - sims[last.inst].gs.revenues)
          = sims[last.inst].gs.expenses

(* the largest number of draws one acquire_drug call is followed through *)
MaxDraws == 30

(* how many draws lead the generator from state r to state target *)
RECURSIVE DrawsBetween(_, _, _)
DrawsBetween(r, target, n) ==
    IF r = target \/ n = MaxDraws THEN n
    ELSE DrawsBetween(RandNext(r), target, n + 1)

(* the draws of one direct acquire_drug call *)
AcquireDraws == DrawsBetween(last.pre.r, randState, 0)

(* the call was made inside the disruption window *)
AcquireInWindow ==
    /\ last.pre.sim.gs.ticks_disruption # None
    /\ last.pre.tick > last.pre.sim.gs.ticks_disruption
    /\ last.pre.tick <= last.pre.sim.gs.ticks_disruption
                           + last.pre.sim.gs.stop_acquire_days

(* the call was made in the first half of the window with arrests on record *)
AcquireArrestGate ==
    /\ AcquireInWindow
    /\ 2 * last.pre.tick <= 2 * last.pre.sim.gs.ticks_disruption
                               + last.pre.sim.gs.stop_acquire_days
    /\ last.pre.sim.gs.arrested_pct # 0

(* the call went on to the trials: after d gate draws it drew the market
   condition and the price, and three numbers per trial *)
TrialsReached(d) == AcquireDraws >= d + 2 /\ (AcquireDraws - d - 2) % 3 = 0

(* C26: acquire_drug on an acquisition tick returns before the trials only
   inside the disruption window ticks_disruption < tick <= ticks_disruption +
   stop_acquire_days; outside it the trials are always reached (no gate draw
   is made); the arrest-percentage gate is consulted only in the first half
   of the window: in the second half the only gate draw is the
   efficiency-versus-security one *)
C26_OnlyWindowVetoesAcquisition ==
    last.op = "acquire_drug" =>
        /\ ~AcquireInWindow => TrialsReached(0)
        /\ (AcquireInWindow /\ ~AcquireArrestGate)
              => (AcquireDraws = 1 \/ TrialsReached(1))
        /\ AcquireArrestGate
              => (AcquireDraws \in {1, 2} \/ TrialsReached(2))

(* an acquisition vetoed in the second half of the window after one draw *)
C26_Witness ==
    /\ last.op = "acquire_drug"
    /\ AcquireInWindow
    /\ last.pre.tick = 2 * MONTH
    /\ last.pre.sim.gs.arrested_pct # 0
    /\ AcquireDraws = 1

(* the transfers of the last step that went to a member that was not an
   available active member of the role below the sender's *)
MisdirectedTransfers(sim) ==
    {k \in 1 .. Len(sim.log.transfers) :
        \/ sim.log.transfers[k].dst_arrested
        \/ sim.log.transfers[k].dst_type
              # (IF sim.log.transfers[k].upstream = "trafficker"
                 THEN "packager" ELSE "retailer")
        \/ sim.log.transfers[k].dst_availability <= 0}

(* C27: every package handed over in a step is received by an active member
   of the downstream role whose availability is on at the moment of that
   transfer *)
C27_TransfersToAvailableMembers ==
    \A i \in Instances :
        sims[i].exists => MisdirectedTransfers(sims[i]) = {}

(* the active members of sim that are in the role its target_of_disruption
   names *)
RoleScope(sim) ==
    {k \in Indices(sim.agents) :
        /\ ~sim.agents[k].is_arrested
        /\ sim.agents[k].agent_type
              = (IF sim.gs.target_of_disruption = "traffickers" THEN "trafficker"
                 ELSE IF sim.gs.target_of_disruption = "packagers" THEN "packager"
                 ELSE "retailer")}

(* C28: a major disruption restricted to one role arrests only members of
   that role that were active, never more than were active in the scope,
   and in scenario1 with percentage p exactly floor(p * |scope| / 100) *)
C28_RoleRestrictedDisruption ==
    (/\ last.op = "major_arrest"
     /\ last.pre.gs.target_of_disruption \in DisruptionTargets)
    => /\ NewlyArrested(sims[last.inst], last.pre) \subseteq RoleScope(last.pre)
       /\ Cardinality(NewlyArrested(sims[last.inst], last.pre))
             <= Cardinality(RoleScope(last.pre))
       /\ last.pre.gs.disruption_mode = "scenario1"
             => Cardinality(NewlyArrested(sims[last.inst], last.pre))
                   = (last.pre.arrest_scenario
                        * Cardinality(RoleScope(last.pre))) \div 100

(* a disruption of the retailers alone in scenario1 at 50 percent: one of
   the three is arrested *)
C28_Witness ==
    /\ last.op = "major_arrest"
    /\ last.pre.gs.target_of_disruption = "retailers"
    /\ last.pre.gs.disruption_mode = "scenario1"
    /\ last.pre.arrest_scenario = 50
    /\ Cardinality(RoleScope(last.pre)) = INITIAL_RETAILERS
    /\ Cardinality(NewlyArrested(sims[last.inst], last.pre)) = 1

(* the roles of sim that have no active member *)
EmptyTiers(sim) ==
    {type \in {"trafficker", "packager", "retailer"} :
        get_active_agents_by_type(sim.agents, type) = << >>}

(* the three exhaustion counters of a global state together *)
ExhaustionCount(gs) ==
    gs.n_exhaust_traffickers + gs.n_exhaust_packagers + gs.n_exhaust_retailers

(* what the stage that needs the role did in the last step *)
StageActed(sim, type) ==
    IF type = "retailer"
    THEN \/ sim.log.sellers # {}
         \/ sim.gs.revenues # 0
         \/ \E k \in 1 .. Len(sim.log.transfers) :
                sim.log.transfers[k].upstream = "packager"
    ELSE \E k \in 1 .. Len(sim.log.transfers) :
             sim.log.transfers[k].upstream = "trafficker"

(* C29: a step taken while a role has no active member leaves the stage
   that needs the role without effect (no package handed over to or from the
   tier, nothing sold, no revenue) and increments an exhaustion counter *)
C29_EmptyTierSkippedAndCounted ==
    last.op = "step" =>
        \A type \in EmptyTiers(last.pre) :
            /\ ~StageActed(sims[last.inst], type)
            /\ ExhaustionCount(sims[last.inst].gs)
                  > ExhaustionCount(last.pre.gs)

(* the doses sold in the last step: each sale adds the price of a dose less
   the retailer's share to revenues, which step() resets before the stages *)
DosesSold(sim, old) ==
    sim.gs.revenues
       \div (old.gs.price_per_dose
               - (old.gs.price_per_dose * old.gs.retailers_share_of_profits)
                    \div 100)

(* C30: in a step with active retailers, a sale loop that ends before the
   drawn dose count unit_dose_now has been sold increments n_exhaust_retailers
   by one, and n_exhaust_retailers_90 by one exactly when fewer than 90% of
   the dose count had been sold; when the full dose count is sold neither
   counter changes *)
C30_ExhaustionRecordedOnce ==
    (/\ last.op = "step"
     /\ get_active_agents_by_type(last.pre.agents, "retailer") # << >>)
    => IF DosesSold(sims[last.inst], last.pre)
             < sims[last.inst].gs.unit_dose_now
       THEN /\ sims[last.inst].gs.n_exhaust_retailers
                  = last.pre.gs.n_exhaust_retailers + 1
            /\ sims[last.inst].gs.n_exhaust_retailers_90
                  = last.pre.gs.n_exhaust_retailers_90
                      + (IF 10 * DosesSold(sims[last.inst], last.pre)
                               < 9 * sims[last.inst].gs.unit_dose_now
                         THEN 1 ELSE 0)
       ELSE /\ sims[last.inst].gs.n_exhaust_retailers
                  = last.pre.gs.n_exhaust_retailers
            /\ sims[last.inst].gs.n_exhaust_retailers_90
                  = last.pre.gs.n_exhaust_retailers_90

(* the members as the named stage of the last step left them *)
StageMembers(sim, stage) ==
    sim.log.stages[CHOOSE k \in 1 .. Len(sim.log.stages) :
                       sim.log.stages[k].stage = stage].members

(* the active retailers that could still sell a dose when the sale stage of
   the last step ended: available and holding a dose-equivalent *)
EligibleRetailers(sim, old) ==
    {k \in DOMAIN StageMembers(sim, "sell") :
        /\ StageMembers(sim, "sell")[k].agent_type = "retailer"
        /\ ~StageMembers(sim, "sell")[k].is_arrested
        /\ StageMembers(sim, "sell")[k].availability > 0
        /\ StageMembers(sim, "sell")[k].drug >= old.gs.gram_per_dose}

(* C31: the sale loop of a step ends before unit_dose_now doses are sold
   only when no active retailer is both available and holds a
   dose-equivalent, and every dose was sold by a retailer whose
   availability * drug was the largest among the active retailers *)
C31_SaleStopsOnlyWhenNoneEligible ==
    (/\ last.op = "step"
     /\ last.result # "raised"
     /\ get_active_agents_by_type(last.pre.agents, "retailer") # << >>)
    => /\ Len(sims[last.inst].log.doses) < sims[last.inst].gs.unit_dose_now
             => EligibleRetailers(sims[last.inst], last.pre) = {}
       /\ \A d \in 1 .. Len(sims[last.inst].log.doses) :
             \A key \in sims[last.inst].log.doses[d].keys :
                 key <= sims[last.inst].log.doses[d].key

(* a day on which the loop ended early after at least one sale *)
C31_Witness ==
    /\ last.op = "step"
    /\ last.result # "raised"
    /\ Len(sims[last.inst].log.doses) > 0
    /\ Len(sims[last.inst].log.doses) < sims[last.inst].gs.unit_dose_now
    /\ Cardinality(sims[last.inst].log.sellers) > 1

(* the inventory the active members of a role hold together, members being
   the holdings recorded after a stage *)
TierHeld(members, type) ==
    SumSeq([k \in DOMAIN members |->
               IF members[k].agent_type = type /\ ~members[k].is_arrested
               THEN members[k].drug ELSE 0])

(* the aggregates of a stage record agree with its members *)
StageAgrees(entry) ==
    /\ entry.stock_drug_traffickers = TierHeld(entry.members, "trafficker")
    /\ entry.stock_drug_packagers = TierHeld(entry.members, "packager")
    /\ entry.stock_drug_retailers = TierHeld(entry.members, "retailer")
    /\ \A k \in DOMAIN entry.members :
          entry.members[k].is_arrested => entry.members[k].drug = 0

(* C37: after every stage of a step() and at its end, each tier's stock
   aggregate equals the sum of the inventories of the active members of the
   tier, and every arrested member holds nothing *)
C37_AggregatesAgreeWithMembers ==
    \A i \in Instances :
        sims[i].exists =>
            /\ \A k \in 1 .. Len(sims[i].log.stages) :
                  StageAgrees(sims[i].log.stages[k])
            /\ StageAgrees([stock_drug_traffickers |->
                               sims[i].gs.stock_drug_traffickers,
                            stock_drug_packagers |->
                               sims[i].gs.stock_drug_packagers,
                            stock_drug_retailers |->
                               sims[i].gs.stock_drug_retailers,
                            members |-> [k \in Indices(sims[i].agents) |->
                                            Holding(sims[i].agents[k])]])

(* C32: within the sale stage of a step every dose is sold by a retailer
   that is available and whose daily profit is below profit_of_retailers_max;
   the first dose a retailer sells finds its profit at 0, whatever it earned
   the day before; and a retailer that ends the stage with its profit at the
   maximum is unavailable *)
C32_RetailerProfitCapped ==
    (last.op = "step" /\ last.result # "raised")
    => /\ \A d \in 1 .. Len(sims[last.inst].log.doses) :
             /\ sims[last.inst].log.doses[d].availability > 0
             /\ sims[last.inst].log.doses[d].profit
                   < last.pre.gs.profit_of_retailers_max
             /\ (\A e \in 1 .. (d - 1) :
                    sims[last.inst].log.doses[e].agent
                       # sims[last.inst].log.doses[d].agent)
                   => sims[last.inst].log.doses[d].profit = 0
       /\ \A k \in DOMAIN StageMembers(sims[last.inst], "sell") :
             (/\ StageMembers(sims[last.inst], "sell")[k].agent_type = "retailer"
              /\ ~StageMembers(sims[last.inst], "sell")[k].is_arrested
              /\ StageMembers(sims[last.inst], "sell")[k].profit
                    >= last.pre.gs.profit_of_retailers_max)
             => StageMembers(sims[last.inst], "sell")[k].availability = 0

(* a retailer that earned the day before sells again, and a retailer that
   still holds a dose reaches the maximum while doses remain to be sold *)
C32_Witness ==
    /\ last.op = "step"
    /\ last.result # "raised"
    /\ \E d \in 1 .. Len(sims[last.inst].log.doses) :
          \E k \in Indices(last.pre.agents) :
             /\ last.pre.agents[k].agent_id = sims[last.inst].log.doses[d].agent
             /\ last.pre.agents[k].profit > 0
             /\ sims[last.inst].log.doses[d].profit = 0
    /\ \E k \in DOMAIN StageMembers(sims[last.inst], "sell") :
          /\ StageMembers(sims[last.inst], "sell")[k].profit
                >= last.pre.gs.profit_of_retailers_max
          /\ StageMembers(sims[last.inst], "sell")[k].availability = 0
          /\ StageMembers(sims[last.inst], "sell")[k].drug
                >= last.pre.gs.gram_per_dose
    /\ Len(sims[last.inst].log.doses) < sims[last.inst].gs.unit_dose_now

(* the familiarity member a of sim records for member b, 0 if none *)
Familiarity(sim, a, b) ==
    get_connection_familiarity(sim.agents[IndexOf(sim.agents, a)], b)

(* how many packages the last step handed from src to dst *)
PackagesBetween(sim, src, dst) ==
    Cardinality({k \in 1 .. Len(sim.log.transfers) :
                    /\ sim.log.transfers[k].src = src
                    /\ sim.log.transfers[k].dst = dst})

(* how many relationships of the pair the step appended to Network.links *)
LinksAdded(sim, old, a, b) ==
    Cardinality({k \in (Len(old.links) + 1) .. Len(sim.links) :
                    {sim.links[k][1], sim.links[k][2]} = {a, b}})

(* C33: each package handed over in a step raises the familiarity both
   endpoints record for the pair by exactly one, from 0 (no relationship)
   to 1 for the first; and no step or run lowers any familiarity *)
C33_TransferStrengthensEdge ==
    (last.op \in {"step", "run"} /\ last.result # "raised")
    => /\ last.op = "step" =>
             \A k \in 1 .. Len(sims[last.inst].log.transfers) :
                LET src == sims[last.inst].log.transfers[k].src
                    dst == sims[last.inst].log.transfers[k].dst
                IN /\ Familiarity(sims[last.inst], src, dst)
                         = Familiarity(last.pre, src, dst)
                             + PackagesBetween(sims[last.inst], src, dst)
                             + LinksAdded(sims[last.inst], last.pre, src, dst)
                   /\ Familiarity(sims[last.inst], dst, src)
                         = Familiarity(last.pre, dst, src)
                             + PackagesBetween(sims[last.inst], src, dst)
                             + LinksAdded(sims[last.inst], last.pre, src, dst)
       /\ \A a \in AgentIds(last.pre.agents), b \in AgentIds(last.pre.agents) :
             Familiarity(sims[last.inst], a, b) >= Familiarity(last.pre, a, b)

(* a step in which a pair without a relationship transacted, and another
   pair transacted again *)
C33_Witness ==
    /\ last.op = "step"
    /\ last.result # "raised"
    /\ \E k \in 1 .. Len(sims[last.inst].log.transfers) :
          /\ Familiarity(last.pre, sims[last.inst].log.transfers[k].src,
                         sims[last.inst].log.transfers[k].dst) = 0
          /\ Familiarity(sims[last.inst], sims[last.inst].log.transfers[k].src,
                         sims[last.inst].log.transfers[k].dst) = 1
    /\ \E k \in 1 .. Len(sims[last.inst].log.transfers) :
          /\ Familiarity(last.pre, sims[last.inst].log.transfers[k].src,
                         sims[last.inst].log.transfers[k].dst) > 0
          /\ PackagesBetween(sims[last.inst],
                             sims[last.inst].log.transfers[k].src,
                             sims[last.inst].log.transfers[k].dst) > 1

(* the unordered pairs of members of sim that are related: one is among the
   other's partners *)
RelatedPairs(sim) ==
    {pair \in {{a, b} : a \in AgentIds(sim.agents), b \in AgentIds(sim.agents)} :
        \E k \in Indices(sim.agents) :
           \E b \in sim.agents[k].connections :
              pair = {sim.agents[k].agent_id, b}}

(* the entries of Network.links for an unordered pair *)
LinkEntries(sim, pair) ==
    {k \in 1 .. Len(sim.links) : {sim.links[k][1], sim.links[k][2]} = pair}

(* C34: Network.links holds exactly one relationship for every unordered
   pair of related members, and none for any other pair *)
C34_LinksOnePerPair ==
    \A i \in Instances :
        sims[i].exists =>
            /\ \A pair \in RelatedPairs(sims[i]) :
                  Cardinality(LinkEntries(sims[i], pair)) = 1
            /\ \A k \in 1 .. Len(sims[i].links) :
                  {sims[i].links[k][1], sims[i].links[k][2]}
                      \in RelatedPairs(sims[i])

(* the pairs <<id, distance>> of the active members reached from the
   frontier along relationships between active members *)
RECURSIVE ActiveDistances(_, _, _, _)
ActiveDistances(agents, frontier, visited, dist) ==
    IF frontier = {} THEN {}
    ELSE {<<id, dist>> : id \in frontier}
         \cup ActiveDistances(
                  agents,
                  (ActiveIds(agents)
                     \cap UNION {agents[IndexOf(agents, id)].connections :
                                    id \in frontier})
                    \ (visited \cup frontier),
                  visited \cup frontier, dist + 1)

(* the shortest distance from a to b in the active subgraph, or for a pair
   it does not connect the largest distance found from a plus 1 *)
ActiveGeodesic(agents, a, b) ==
    LET found == ActiveDistances(agents, {a}, {}, 0)
    IN IF \E d \in found : d[1] = b
       THEN (CHOOSE d \in found : d[1] = b)[2]
       ELSE MaxOf({d[2] : d \in found}) + 1

(* the distances of all ordered pairs of active members added up *)
ActiveGeodesicTotal(agents) ==
    SumSeq([s \in 1 .. Len(get_active_agents(agents)) |->
       SumSeq([t \in 1 .. Len(get_active_agents(agents)) |->
          IF s = t THEN 0
          ELSE ActiveGeodesic(agents,
                   agents[get_active_agents(agents)[s]].agent_id,
                   agents[get_active_agents(agents)[t]].agent_id)])])

(* C35: the average geodesic distance is the mean over the ordered pairs of
   active members of their shortest distance in the active subgraph, a pair
   that the active subgraph does not connect (its only connection runs
   through an arrested member) contributing the largest distance found from
   the source plus 1 *)
C35_GeodesicOverActiveSubgraph ==
    \A i \in Instances :
        (sims[i].exists /\ Len(get_active_agents(sims[i].agents)) >= 2)
        => all_statistics(sims[i].agents).average_path_length
              = Frac(ActiveGeodesicTotal(sims[i].agents),
                     Len(get_active_agents(sims[i].agents))
                       * (Len(get_active_agents(sims[i].agents)) - 1))


(* the active traffickers at the start of the direct acquire_drug call *)
AcquireTraffickers ==
    {k \in Indices(last.pre.sim.agents) :
        /\ last.pre.sim.agents[k].agent_type = "trafficker"
        /\ ~last.pre.sim.agents[k].is_arrested}

(* C36: one acquire_drug call leaves every trafficker's attractiveness within
   [0, 1] and changes it by exactly one application of the law for the
   outcome of the trafficker's trial: a trafficker that bought has the value
   of one upward step, a trafficker that bought nothing and whose value
   changed has the value of one downward step *)
C36_OneSkillStepPerAttempt ==
    last.op = "acquire_drug" =>
        \A k \in AcquireTraffickers :
            /\ sims[last.inst].agents[k].attractiveness \in 0 .. 100
            /\ sims[last.inst].agents[k].drug > last.pre.sim.agents[k].drug
                  => sims[last.inst].agents[k].attractiveness
                        = attempt_acquisition(last.pre.sim.agents[k], TRUE).attractiveness
            /\ (/\ sims[last.inst].agents[k].drug = last.pre.sim.agents[k].drug
                /\ sims[last.inst].agents[k].attractiveness
                      # last.pre.sim.agents[k].attractiveness)
                  => sims[last.inst].agents[k].attractiveness
                        = attempt_acquisition(last.pre.sim.agents[k], FALSE).attractiveness


(* the pairs of members of sim whose relationship is not recorded alike at
   its two ends: one is among the other's partners and not the reverse, or
   the two ends hold different familiarities *)
LopsidedPairs(sim) ==
    {pair \in Indices(sim.agents) \X Indices(sim.agents) :
        \/ (sim.agents[pair[2]].agent_id \in sim.agents[pair[1]].connections)
             # (sim.agents[pair[1]].agent_id \in sim.agents[pair[2]].connections)
        \/ get_connection_familiarity(sim.agents[pair[1]],
                                      sim.agents[pair[2]].agent_id)
             # get_connection_familiarity(sim.agents[pair[2]],
                                          sim.agents[pair[1]].agent_id)}

(* C38: in every reachable state relationships are symmetric: b is among
   a's partners exactly when a is among b's, both ends record the same
   familiarity for the pair, and every partner is a member of the network *)
C38_RelationshipsSymmetric ==
    \A i \in Instances :
        sims[i].exists =>
            /\ LopsidedPairs(sims[i]) = {}
            /\ \A k \in Indices(sims[i].agents) :
                  /\ sims[i].agents[k].connections \subseteq AgentIds(sims[i].agents)
                  /\ DOMAIN sims[i].agents[k].link_data
                        = sims[i].agents[k].connections

(* a step has related two members that were not related before it, by
   transfers that brought the familiarity of the pair above 1 *)
C38_Witness ==
    /\ last.op = "step"
    /\ \E a, b \in AgentIds(sims[last.inst].agents) :
          /\ Related(sims[last.inst], a, b)
          /\ ~Related(last.pre, a, b)
          /\ get_connection_familiarity(Member(sims[last.inst], a), b) >= 2
          /\ get_connection_familiarity(Member(sims[last.inst], b), a) >= 2


(* the last call was a major disruption with a zero arrest target:
   scenario1, percentage mode, 0 percent *)
ZeroTargetDisruption ==
    /\ last.op = "major_arrest"
    /\ last.pre.gs.disruption_mode = "scenario1"
    /\ last.pre.gs.arrested_mode = "arrested%"
    /\ last.pre.arrest_scenario = 0

(* the last call was acquire_drug on an instance with a zero arrest target *)
ZeroTargetAcquire ==
    /\ last.op = "acquire_drug"
    /\ last.pre.sim.gs.disruption_mode = "scenario1"
    /\ last.pre.sim.gs.arrested_mode = "arrested%"
    /\ last.pre.sim.arrest_scenario = 0

(* C39: with a zero arrest target (scenario1, percentage mode) the major
   disruption arrests nobody and changes no inventory, of a member or of a
   tier, and sets ticks_disruption to the tick of the event; an acquisition
   inside the window then makes the one efficiency-versus-security draw and
   is vetoed or goes on to the trials, a vetoed one buying nothing; while
   ticks_disruption is unset no draw is made and the trials are reached *)
C39_ZeroTargetStillOpensWindow ==
    /\ ZeroTargetDisruption
          => /\ NewlyArrested(sims[last.inst], last.pre) = {}
             /\ \A k \in Indices(last.pre.agents) :
                   sims[last.inst].agents[k].drug = last.pre.agents[k].drug
             /\ sims[last.inst].gs.stock_drug_traffickers
                   = last.pre.gs.stock_drug_traffickers
             /\ sims[last.inst].gs.stock_drug_packagers
                   = last.pre.gs.stock_drug_packagers
             /\ sims[last.inst].gs.stock_drug_retailers
                   = last.pre.gs.stock_drug_retailers
             /\ sims[last.inst].gs.stock_drug = last.pre.gs.stock_drug
             /\ sims[last.inst].gs.ticks_disruption = last.pre.tick
    /\ (ZeroTargetAcquire /\ AcquireInWindow)
          => /\ AcquireDraws = 1 \/ TrialsReached(1)
             /\ AcquireDraws = 1
                   => /\ sims[last.inst].agents = last.pre.sim.agents
                      /\ sims[last.inst].gs.n_acquisition
                            = last.pre.sim.gs.n_acquisition
                      /\ sims[last.inst].gs.cash_box = last.pre.sim.gs.cash_box
    /\ (ZeroTargetAcquire /\ last.pre.sim.gs.ticks_disruption = None)
          => TrialsReached(0)

(* an acquisition vetoed by the one gate draw inside the window that a
   disruption with a zero arrest target opened: no member is arrested *)
C39_Witness ==
    /\ ZeroTargetAcquire
    /\ AcquireInWindow
    /\ AcquireDraws = 1
    /\ \A k \in Indices(sims[last.inst].agents) :
          ~sims[last.inst].agents[k].is_arrested
    /\ sims[last.inst].gs.n_arrested_traffickers_major
         + sims[last.inst].gs.n_arrested_packagers_major
         + sims[last.inst].gs.n_arrested_retailers_major = 0

=============================================================================
